---------------------------- MODULE Spec2Model ----------------------------
(***************************************************************************)
(* A model of the topic memory store of liminal-voice-core                *)
(* (src/src/astro.rs): AstroTrace, its decay and its log line format, and  *)
(* AstroStore with its cache, recency order, capacity and durable log;     *)
(* of the temperament Stabilizer (src/src/stabilizer.rs), of the sync      *)
(* controller SyncState (src/src/sync.rs), and of the calls the turn loop  *)
(* of main (src/src/main.rs) makes to the three.                           *)
(*                                                                         *)
(* Numbers.  The f32 fields are fixed-point integers in units of 1e-7      *)
(* (Scale = 1.0), one decimal finer than the six decimals the log line     *)
(* keeps, so that writing a trace and reading it back is not the identity. *)
(* Timestamps are seconds, as in the source.  Numbers are finite: NaN and  *)
(* the infinities are not modelled.  Learning rates and ema_alpha are      *)
(* whole numbers of hundredths.                                            *)
(*                                                                         *)
(* Text.  A log line is a sequence of tokens: a token is one character     *)
(* (kind "ch"), a run of letters (kind "w": a field name, true, false), or *)
(* a number as printed (kind "float": the value in units of 1e-6, kind     *)
(* "int").  A key is a sequence of one-character strings.                  *)
(***************************************************************************)
EXTENDS Integers, Sequences, FiniteSets, TLC

\* ------------------------------------------------------------------ bounds

\* Most lines the log may hold: the writes stop when it is full.
MaxLog == 3
\* Most restarts (load calls on the log written so far) in one run.
MaxLoads == 1
\* Most pushes of the stabilizer, and most steps of the sync controller, in
\* one run.
MaxCalls == 3
\* Most pushes in a run that heats the stabilizer and lets it cool down.
MaxCool == 6

\* The most turns a run of main makes.
MaxTurns == 3

\* ------------------------------------------------------- program constants

Scale == 10 ^ 7
SecondsPerDay == 86400
MaxDecayDays == 30
DEFAULT_ALPHA == 2200000
STABILITY_DECAY_PER_DAY == 800000
STABILITY_THRESHOLD == 1800000
SYNC_CLAMP == 2000000

\* ------------------------------------------------------------ arithmetic

Min(a, b) == IF a <= b THEN a ELSE b
Max(a, b) == IF a >= b THEN a ELSE b
Abs(a) == IF a >= 0 THEN a ELSE -a
Clamp(v, lo, hi) == IF v < lo THEN lo ELSE IF v > hi THEN hi ELSE v

\* Integer division rounding to nearest, toward zero for what TLC's \div
\* would round down; the stand-in for an f32 product or quotient.
DivRound(a, b) == IF a >= 0 THEN (2 * a + b) \div (2 * b) ELSE -((2 * (-a) + b) \div (2 * b))

\* a * (num / den): the product of a fixed-point number and a constant of
\* the source, written as a fraction so that no intermediate value leaves the
\* 32-bit integers of TLC.
MulRat(a, num, den) == DivRound(a * num, den)

\* clamp01 that returns what it is given.
clamp01_off(v) == v

clamp01(v) == IF v < 0 THEN 0 ELSE IF v > Scale THEN Scale ELSE v

\* A sync bias taken as it is.
clamp_bias_off(value) == value

\* clamp_bias: a sync bias cut to [-SYNC_CLAMP, SYNC_CLAMP].
clamp_bias(value) == Clamp(value, -SYNC_CLAMP, SYNC_CLAMP)

\* ------------------------------------------------------------- AstroTrace

\* AstroTrace::new(key, now).
NewTrace(key, now) ==
    [key |-> key, ema_drift |-> 0, ema_res |-> 0, stability |-> 0, visits |-> 0,
     last_ts |-> now, emo_tag |-> FALSE, sync_bias_drift |-> 0, sync_bias_res |-> 0,
     sync_stability |-> 0, sync_visits |-> 0]

\* (elapsed / 86_400.0).min(30.0) * STABILITY_DECAY_PER_DAY, computed on the
\* seconds: 0.08 / 86400 is 250/27 units of 1e-7 a second.
DecayOf(elapsed) ==
    (Min(elapsed, MaxDecayDays * SecondsPerDay) * (STABILITY_DECAY_PER_DAY \div 3200))
        \div (SecondsPerDay \div 3200)

\* decay without its early returns: a now before last_ts counts as well.
DecayUnguarded(trace, now) ==
    LET decay == Min(DecayOf(now - trace.last_ts), trace.stability)
        stab == Max(trace.stability - decay, 0)
    IN [trace EXCEPT !.stability = stab,
                     !.emo_tag = IF stab < STABILITY_THRESHOLD THEN FALSE ELSE @]

\* AstroTrace::decay(now).
Decay(trace, now) ==
    IF now <= trace.last_ts
    THEN trace
    ELSE LET elapsed == now - trace.last_ts
             decay == Min(DecayOf(elapsed), trace.stability)
             stab == Max(trace.stability - decay, 0)
         IN IF elapsed <= 0
            THEN trace
            ELSE [trace EXCEPT !.stability = stab,
                               !.emo_tag = IF stab < STABILITY_THRESHOLD THEN FALSE ELSE @]

\* ------------------------------------------------------- the log line text

Ch(c) == [k |-> "ch", c |-> c, n |-> 0]
Word(w) == [k |-> "w", c |-> w, n |-> 0]
FloatTok(n) == [k |-> "float", c |-> "", n |-> n]
IntTok(n) == [k |-> "int", c |-> "", n |-> n]

IsCh(tok, c) == tok.k = "ch" /\ tok.c = c

\* {:.6} of an f32: the value rounded to six decimals, in units of 1e-6.
Fmt6(x) == FloatTok(DivRound(x, 10))

\* The characters of a key, as they are written between the quotes.
KeyText(key) == [i \in 1..Len(key) |-> Ch(key[i])]

\* One  "name":value  of the line.
Field(name, value) == <<Ch("\""), Word(name), Ch("\""), Ch(":")>> \o value

\* AstroTrace::to_json_line.
to_json_line(t) ==
    <<Ch("{")>>
    \o Field("key", <<Ch("\"")>> \o KeyText(t.key) \o <<Ch("\"")>>) \o <<Ch(",")>>
    \o Field("ema_drift", <<Fmt6(t.ema_drift)>>) \o <<Ch(",")>>
    \o Field("ema_res", <<Fmt6(t.ema_res)>>) \o <<Ch(",")>>
    \o Field("stability", <<Fmt6(t.stability)>>) \o <<Ch(",")>>
    \o Field("visits", <<IntTok(t.visits)>>) \o <<Ch(",")>>
    \o Field("last_ts", <<IntTok(t.last_ts)>>) \o <<Ch(",")>>
    \o Field("emo_tag", <<Word(IF t.emo_tag THEN "true" ELSE "false")>>) \o <<Ch(",")>>
    \o Field("sync_bias_drift", <<Fmt6(t.sync_bias_drift)>>) \o <<Ch(",")>>
    \o Field("sync_bias_res", <<Fmt6(t.sync_bias_res)>>) \o <<Ch(",")>>
    \o Field("sync_stability", <<Fmt6(t.sync_stability)>>) \o <<Ch(",")>>
    \o Field("sync_visits", <<IntTok(t.sync_visits)>>)
    \o <<Ch("}")>>

\* str::find(c) from position i on: the first position of character c in s,
\* 0 when there is none.
RECURSIVE FindCh(_, _, _)
FindCh(s, c, i) ==
    IF i > Len(s) THEN 0 ELSE IF IsCh(s[i], c) THEN i ELSE FindCh(s, c, i + 1)

FirstCh(s, c) == FindCh(s, c, 1)

\* str::split(c): the pieces of s between the occurrences of c.
RECURSIVE Split(_, _)
Split(s, c) ==
    LET i == FirstCh(s, c)
    IN IF i = 0 THEN <<s>> ELSE <<SubSeq(s, 1, i - 1)>> \o Split(SubSeq(s, i + 1, Len(s)), c)

\* The first position from i on, and the last position up to i, that does
\* not hold character c.
RECURSIVE SkipCh(_, _, _)
SkipCh(s, c, i) ==
    IF i > Len(s) THEN i ELSE IF IsCh(s[i], c) THEN SkipCh(s, c, i + 1) ELSE i

RECURSIVE SkipBackCh(_, _, _)
SkipBackCh(s, c, i) ==
    IF i < 1 THEN i ELSE IF IsCh(s[i], c) THEN SkipBackCh(s, c, i - 1) ELSE i

\* str::trim_matches(c): s without its leading and trailing runs of c.
TrimCh(s, c) == SubSeq(s, SkipCh(s, c, 1), SkipBackCh(s, c, Len(s)))

\* str::trim: white space is the space character.
Trim(s) == TrimCh(s, " ")

\* The string a run of tokens spells, as a key: one element per token.
TextOf(s) == [i \in 1..Len(s) |-> IF s[i].k \in {"ch", "w"} THEN s[i].c ELSE "#"]

\* The field name a part's key spells ("" when it is none of a line's words).
NameOf(s) == IF Len(s) = 1 /\ s[1].k = "w" THEN s[1].c ELSE ""

\* Option: None, or Some(x).
None == <<>>
Some(x) == <<x>>

\* str::parse::<f32>().ok().
ParseF32(v) ==
    IF Len(v) = 1 /\ v[1].k = "float" THEN Some(v[1].n * 10)
    ELSE IF Len(v) = 1 /\ v[1].k = "int" THEN Some(v[1].n * Scale)
    ELSE None

\* str::parse::<u32>().ok().
ParseU32(v) ==
    IF Len(v) = 1 /\ v[1].k = "int" /\ v[1].n >= 0 THEN Some(v[1].n) ELSE None

\* str::parse::<i64>().ok().
ParseI64(v) == IF Len(v) = 1 /\ v[1].k = "int" THEN Some(v[1].n) ELSE None

\* matches!(value, "true" | "1").
ParseBool(v) ==
    Len(v) = 1 /\ (v[1] = Word("true") \/ v[1] = IntTok(1))

\* The loop body when a required number that does not parse is passed over.
ApplyPartLenient(trace, part) ==
    LET colon == FirstCh(part, ":")
        name == NameOf(TrimCh(Trim(SubSeq(part, 1, colon - 1)), "\""))
        value == Trim(SubSeq(part, colon + 1, Len(part)))
        Optional(field, parsed) ==
            Some([trace EXCEPT ![field] = IF parsed = None THEN 0 ELSE parsed[1]])
    IN IF colon = 0 THEN None
       ELSE CASE name = "key" -> Some([trace EXCEPT !.key = TextOf(TrimCh(value, "\""))])
              [] name = "ema_drift" -> Optional("ema_drift", ParseF32(value))
              [] name = "ema_res" -> Optional("ema_res", ParseF32(value))
              [] name = "stability" -> Optional("stability", ParseF32(value))
              [] name = "visits" -> Optional("visits", ParseU32(value))
              [] name = "last_ts" -> Optional("last_ts", ParseI64(value))
              [] name = "emo_tag" -> Some([trace EXCEPT !.emo_tag = ParseBool(value)])
              [] name = "sync_bias_drift" -> Optional("sync_bias_drift", ParseF32(value))
              [] name = "sync_bias_res" -> Optional("sync_bias_res", ParseF32(value))
              [] name = "sync_stability" -> Optional("sync_stability", ParseF32(value))
              [] name = "sync_visits" -> Optional("sync_visits", ParseU32(value))
              [] OTHER -> Some(trace)

\* One part of the line applied to the trace read so far: the match of
\* from_json_line's loop body; None when the line is given up.
ApplyPart(trace, part) ==
    LET colon == FirstCh(part, ":")
        name == NameOf(TrimCh(Trim(SubSeq(part, 1, colon - 1)), "\""))
        value == Trim(SubSeq(part, colon + 1, Len(part)))
        Required(field, parsed) ==
            IF parsed = None THEN None ELSE Some([trace EXCEPT ![field] = parsed[1]])
        Optional(field, parsed) ==
            Some([trace EXCEPT ![field] = IF parsed = None THEN 0 ELSE parsed[1]])
    IN IF colon = 0 THEN None
       ELSE CASE name = "key" -> Some([trace EXCEPT !.key = TextOf(TrimCh(value, "\""))])
              [] name = "ema_drift" -> Required("ema_drift", ParseF32(value))
              [] name = "ema_res" -> Required("ema_res", ParseF32(value))
              [] name = "stability" -> Required("stability", ParseF32(value))
              [] name = "visits" -> Required("visits", ParseU32(value))
              [] name = "last_ts" -> Required("last_ts", ParseI64(value))
              [] name = "emo_tag" -> Some([trace EXCEPT !.emo_tag = ParseBool(value)])
              [] name = "sync_bias_drift" -> Optional("sync_bias_drift", ParseF32(value))
              [] name = "sync_bias_res" -> Optional("sync_bias_res", ParseF32(value))
              [] name = "sync_stability" -> Optional("sync_stability", ParseF32(value))
              [] name = "sync_visits" -> Optional("sync_visits", ParseU32(value))
              [] OTHER -> Some(trace)

RECURSIVE ApplyParts(_, _, _)
ApplyParts(trace, parts, i) ==
    IF i > Len(parts) THEN Some(trace)
    ELSE LET next == ApplyPart(trace, parts[i])
         IN IF next = None THEN None ELSE ApplyParts(next[1], parts, i + 1)

\* AstroTrace::from_json_line: the trace the line holds, or None.
from_json_line(line) ==
    LET trimmed == Trim(line)
    IN IF Len(trimmed) = 0 \/ ~IsCh(trimmed[1], "{") \/ ~IsCh(trimmed[Len(trimmed)], "}")
       THEN None
       ELSE LET inner == SubSeq(trimmed, 2, Len(trimmed) - 1)
                trace == ApplyParts(NewTrace(<<>>, 0), Split(inner, ","), 1)
            IN IF trace = None THEN None
               ELSE IF trace[1].key = <<>> THEN None
               ELSE trace

\* ------------------------------------------------------------- AstroStore

\* The store as a value: the fields of AstroStore but its path; the file at
\* the path is the log, kept apart because it outlives the store.
StoreOf(c, o, cap) == [cache |-> c, order |-> o, capacity |-> cap]

\* HashMap::insert.
MapInsert(m, key, value) ==
    [k \in DOMAIN m \cup {key} |-> IF k = key THEN value ELSE m[k]]

\* HashMap::remove.
MapRemove(m, key) == [k \in DOMAIN m \ {key} |-> m[k]]

\* The first position of key in the order list, 0 when it is not there.
Position(order, key) ==
    LET hits == {i \in 1..Len(order) : order[i] = key}
    IN IF hits = {} THEN 0 ELSE CHOOSE i \in hits : \A j \in hits : i <= j

\* promote without the removal of the key's old position.
promote_push_only(order, key) == <<key>> \o order

\* AstroStore::promote: the order list, most recent first.
promote(order, key) ==
    LET pos == Position(order, key)
        rest == IF pos = 0 THEN order
                ELSE SubSeq(order, 1, pos - 1) \o SubSeq(order, pos + 1, Len(order))
    IN <<key>> \o rest

\* evict_if_needed that shortens the order list and leaves the cache alone.
evict_order_only(st) ==
    IF Len(st.order) > st.capacity
    THEN [st EXCEPT !.order = SubSeq(st.order, 1, st.capacity)]
    ELSE st

\* evict_if_needed that pops the front of the order list, not the back.
evict_newest(st) ==
    IF Len(st.order) > st.capacity
    THEN LET n == Len(st.order) - st.capacity
         IN [st EXCEPT !.order = SubSeq(st.order, n + 1, Len(st.order)),
                       !.cache = [k \in DOMAIN st.cache \ {st.order[i] : i \in 1..n}
                                      |-> st.cache[k]]]
    ELSE st

\* AstroStore::evict_if_needed.
RECURSIVE evict_if_needed(_)
evict_if_needed(st) ==
    IF Len(st.order) > st.capacity
    THEN LET old_key == st.order[Len(st.order)]
         IN evict_if_needed([st EXCEPT !.order = SubSeq(st.order, 1, Len(st.order) - 1),
                                       !.cache = MapRemove(st.cache, old_key)])
    ELSE st

\* insert_trace that keeps the record the cache already holds for the key.
insert_if_absent(st, trace) ==
    evict_if_needed([st EXCEPT !.cache = IF trace.key \in DOMAIN st.cache THEN st.cache
                                         ELSE MapInsert(st.cache, trace.key, trace),
                               !.order = promote(st.order, trace.key)])

\* AstroStore::insert_trace.
insert_trace(st, trace) ==
    evict_if_needed([st EXCEPT !.cache = MapInsert(st.cache, trace.key, trace),
                               !.order = promote(st.order, trace.key)])

\* An intensity that is not clamped.
Intensity_unclamped(trace) ==
    LET visit_factor == DivRound(Min(trace.visits, 12) * Scale, 12)
        base == MulRat(trace.stability, 7, 10) + MulRat(visit_factor, 2, 10)
                + MulRat(trace.ema_res, 1, 10)
    IN IF trace.emo_tag THEN base + 1200000 ELSE base

\* The intensity and the advice of a successful recall.
Intensity(trace) ==
    LET visit_factor == DivRound(Min(trace.visits, 12) * Scale, 12)
        base == MulRat(trace.stability, 7, 10) + MulRat(visit_factor, 2, 10)
                + MulRat(trace.ema_res, 1, 10)
    IN Clamp(IF trace.emo_tag THEN base + 1200000 ELSE base, 0, Scale)

AdviceOf(trace) ==
    LET intensity == Intensity(trace)
    IN [drift_bias |-> -200000 - MulRat(intensity, 4, 100),
        res_bias |-> 200000 + MulRat(intensity, 4, 100),
        pace_delta |-> -100000 - MulRat(intensity, 3, 100),
        pause_delta_ms |-> DivRound(10 * Scale + 30 * intensity, Scale)]

\* recall that stamps every cached trace with now when it succeeds.
recall_stamps_all(st, key, now) ==
    IF key \notin DOMAIN st.cache
    THEN [st |-> st, ret |-> None]
    ELSE LET decayed == Decay(st.cache[key], now)
         IN IF decayed.stability < STABILITY_THRESHOLD
            THEN [st |-> [st EXCEPT !.cache[key] = decayed], ret |-> None]
            ELSE LET trace == [decayed EXCEPT !.last_ts = now]
                     stamped == [k \in DOMAIN st.cache |->
                                    IF k = key THEN trace
                                    ELSE [st.cache[k] EXCEPT !.last_ts = now]]
                 IN [st |-> [st EXCEPT !.cache = stamped,
                                       !.order = promote(st.order, key)],
                     ret |-> Some(AdviceOf(trace))]

\* recall that tests the threshold on the stability before the decay.
recall_stale_test(st, key, now) ==
    IF key \notin DOMAIN st.cache
    THEN [st |-> st, ret |-> None]
    ELSE LET decayed == Decay(st.cache[key], now)
         IN IF st.cache[key].stability < STABILITY_THRESHOLD
            THEN [st |-> [st EXCEPT !.cache[key] = decayed], ret |-> None]
            ELSE LET trace == [decayed EXCEPT !.last_ts = now]
                 IN [st |-> [st EXCEPT !.cache[key] = trace,
                                       !.order = promote(st.order, key)],
                     ret |-> Some(AdviceOf(trace))]

\* AstroStore::recall: the store it leaves and what it returns.
recall(st, key, now) ==
    IF key \notin DOMAIN st.cache
    THEN [st |-> st, ret |-> None]
    ELSE LET decayed == Decay(st.cache[key], now)
         IN IF decayed.stability < STABILITY_THRESHOLD
            THEN [st |-> [st EXCEPT !.cache[key] = decayed], ret |-> None]
            ELSE LET trace == [decayed EXCEPT !.last_ts = now]
                 IN [st |-> [st EXCEPT !.cache[key] = trace,
                                       !.order = promote(st.order, key)],
                     ret |-> Some(AdviceOf(trace))]

\* consolidate's trace when visits is not counted up.
ConsolidatedTraceSameVisits(st, key, drift, res, emo_tag, now) ==
    LET old == IF key \in DOMAIN st.cache THEN st.cache[key] ELSE NewTrace(key, now)
    IN [old EXCEPT !.ema_drift = clamp01(drift),
                   !.ema_res = clamp01(res),
                   !.emo_tag = emo_tag,
                   !.stability = Clamp(old.stability + 600000, 0, Scale),
                   !.last_ts = now]

\* The trace of consolidate with last_ts left as it was.
ConsolidatedTraceKeepsTs(st, key, drift, res, emo_tag, now) ==
    LET old == IF key \in DOMAIN st.cache THEN st.cache[key] ELSE NewTrace(key, now)
        visits == old.visits + 1
        ema_drift == clamp01(IF visits = 1 THEN drift
                             ELSE MulRat(drift, DEFAULT_ALPHA \div 100000, 100)
                                  + MulRat(old.ema_drift, 100 - DEFAULT_ALPHA \div 100000, 100))
        ema_res == clamp01(IF visits = 1 THEN res
                           ELSE MulRat(res, DEFAULT_ALPHA \div 100000, 100)
                                + MulRat(old.ema_res, 100 - DEFAULT_ALPHA \div 100000, 100))
        stability_boost == 600000
                           + (IF Abs(ema_res - res) < 500000 THEN 100000 ELSE 0)
                           + (IF emo_tag THEN 500000 ELSE 0)
    IN [old EXCEPT !.visits = visits,
                   !.ema_drift = ema_drift,
                   !.ema_res = ema_res,
                   !.emo_tag = IF emo_tag THEN TRUE
                               ELSE old.emo_tag /\ old.stability > STABILITY_THRESHOLD,
                   !.stability = Clamp(old.stability + stability_boost, 0, Scale)]

\* The trace consolidate persists.  visits is a u32 and the source adds with
\* saturating_add; no run of the model comes near u32::MAX.
ConsolidatedTrace(st, key, drift, res, emo_tag, now) ==
    LET old == IF key \in DOMAIN st.cache THEN st.cache[key] ELSE NewTrace(key, now)
        visits == old.visits + 1
        ema_drift == clamp01(IF visits = 1 THEN drift
                             ELSE MulRat(drift, DEFAULT_ALPHA \div 100000, 100)
                                  + MulRat(old.ema_drift, 100 - DEFAULT_ALPHA \div 100000, 100))
        ema_res == clamp01(IF visits = 1 THEN res
                           ELSE MulRat(res, DEFAULT_ALPHA \div 100000, 100)
                                + MulRat(old.ema_res, 100 - DEFAULT_ALPHA \div 100000, 100))
        stability_boost == 600000
                           + (IF Abs(ema_res - res) < 500000 THEN 100000 ELSE 0)
                           + (IF emo_tag THEN 500000 ELSE 0)
    IN [old EXCEPT !.visits = visits,
                   !.ema_drift = ema_drift,
                   !.ema_res = ema_res,
                   !.emo_tag = IF emo_tag THEN TRUE
                               ELSE old.emo_tag /\ old.stability > STABILITY_THRESHOLD,
                   !.stability = Clamp(old.stability + stability_boost, 0, Scale),
                   !.last_ts = now]

\* The trace of fold_sync_delta with the time since last_ts charged against
\* stability first.
FoldedTraceDecayed(st, key, drift_delta, res_delta, now) ==
    LET old == Decay(IF key \in DOMAIN st.cache THEN st.cache[key] ELSE NewTrace(key, now), now)
        sync_visits == old.sync_visits + 1
        score == Clamp(Scale - DivRound(Abs(drift_delta) + Abs(res_delta), 2), 0, Scale)
        sync_stability == IF sync_visits <= 1 THEN score
                          ELSE DivRound(old.sync_stability * (sync_visits - 1) + score,
                                        sync_visits)
    IN [old EXCEPT !.sync_visits = sync_visits,
                   !.sync_bias_drift = clamp_bias(old.sync_bias_drift + drift_delta),
                   !.sync_bias_res = clamp_bias(old.sync_bias_res + res_delta),
                   !.sync_stability = Clamp(sync_stability, 0, Scale),
                   !.last_ts = now]

\* The trace of fold_sync_delta with sync_stability set to the latest score.
FoldedTraceLatestScore(st, key, drift_delta, res_delta, now) ==
    LET old == IF key \in DOMAIN st.cache THEN st.cache[key] ELSE NewTrace(key, now)
        score == Clamp(Scale - DivRound(Abs(drift_delta) + Abs(res_delta), 2), 0, Scale)
    IN [old EXCEPT !.sync_visits = old.sync_visits + 1,
                   !.sync_bias_drift = clamp_bias(old.sync_bias_drift + drift_delta),
                   !.sync_bias_res = clamp_bias(old.sync_bias_res + res_delta),
                   !.sync_stability = score,
                   !.last_ts = now]

\* The trace fold_sync_delta persists (the deltas are not both zero).
FoldedTrace(st, key, drift_delta, res_delta, now) ==
    LET old == IF key \in DOMAIN st.cache THEN st.cache[key] ELSE NewTrace(key, now)
        sync_visits == old.sync_visits + 1
        score == Clamp(Scale - DivRound(Abs(drift_delta) + Abs(res_delta), 2), 0, Scale)
        sync_stability == IF sync_visits <= 1 THEN score
                          ELSE DivRound(old.sync_stability * (sync_visits - 1) + score,
                                        sync_visits)
    IN [old EXCEPT !.sync_visits = sync_visits,
                   !.sync_bias_drift = clamp_bias(old.sync_bias_drift + drift_delta),
                   !.sync_bias_res = clamp_bias(old.sync_bias_res + res_delta),
                   !.sync_stability = Clamp(sync_stability, 0, Scale),
                   !.last_ts = now]

\* The file at the store's path: its lines, and whether the last of them
\* still lacks its newline (torn).
FileOf(lines, torn) == [lines |-> lines, torn |-> torn]

\* The file after text is written at its end, with a newline after it or
\* without: text that follows a torn line goes on that line.
Written(file, text, newline) ==
    FileOf(IF file.torn
           THEN [file.lines EXCEPT ![Len(file.lines)] = @ \o text]
           ELSE Append(file.lines, text),
           ~newline)

\* What may become of an append: it succeeds; create_dir_all fails; the open
\* fails; the write fails with nothing written, with the line written in
\* part, or with the line written and its newline not.
IoOutcomes == {"ok", "no_dir", "no_open", "write_none", "write_part", "write_no_newline"}

\* append_trace that opens the file without the append flag.
append_trace_truncating(file, trace, io) ==
    IF io = "ok" THEN FileOf(<<to_json_line(trace)>>, FALSE) ELSE file

\* AstroStore::append_trace: the file after the call.  writeln! hands the
\* line and then the newline to write_all, which may fail after a part of
\* what it was given is in the file.
append_trace(file, trace, io) ==
    LET line == to_json_line(trace)
    IN CASE io = "ok" -> Written(file, line, TRUE)
         [] io = "write_part" -> Written(file, SubSeq(line, 1, Len(line) \div 2), FALSE)
         [] io = "write_no_newline" -> Written(file, line, FALSE)
         [] OTHER -> file

\* persist_trace that appends first and gives up when the append fails.
persist_trace_append_first(st, file, trace, io) ==
    [st |-> IF io = "ok" THEN insert_trace(st, trace) ELSE st,
     file |-> append_trace(file, trace, io)]

\* AstroStore::persist_trace: the store and the file it leaves.  The trace
\* is in the cache before the append is tried, and an append that fails is
\* reported on stderr and not to the caller.
persist_trace(st, file, trace, io) ==
    [st |-> insert_trace(st, trace), file |-> append_trace(file, trace, io)]

\* AstroStore::consolidate.
consolidate(st, file, key, drift, res, emo_tag, now, io) ==
    persist_trace(st, file, ConsolidatedTrace(st, key, drift, res, emo_tag, now), io)

\* fold_sync_delta without its early return.
fold_sync_delta_always(st, file, key, drift_delta, res_delta, now, io) ==
    persist_trace(st, file, FoldedTrace(st, key, drift_delta, res_delta, now), io)

\* AstroStore::fold_sync_delta.
fold_sync_delta(st, file, key, drift_delta, res_delta, now, io) ==
    IF drift_delta = 0 /\ res_delta = 0
    THEN [st |-> st, file |-> file]
    ELSE persist_trace(st, file, FoldedTrace(st, key, drift_delta, res_delta, now), io)

\* AstroStore::suggest_sync.
suggest_sync(st, theme) ==
    IF theme \notin DOMAIN st.cache THEN None
    ELSE IF st.cache[theme].sync_visits = 0 THEN None
    ELSE LET trace == st.cache[theme]
         IN Some([drift_bias |-> clamp_bias(trace.sync_bias_drift),
                  res_bias |-> clamp_bias(trace.sync_bias_res),
                  stability |-> Clamp(trace.sync_stability, 0, Scale),
                  visits |-> trace.sync_visits])

\* load's new store with room for one trace more than it was given.
EmptyStoreRoomy(capacity) == StoreOf(<<>>, <<>>, Max(capacity, 1) + 1)

\* The store AstroStore::load starts its replay from.
EmptyStore(capacity) == StoreOf(<<>>, <<>>, Max(capacity, 1))

\* One turn of load's loop: the line as from_json_line read it is inserted
\* when it is a trace.
load_line(st, parsed) ==
    IF parsed = None THEN st ELSE insert_trace(st, parsed[1])

\* load's loop over the first i lines in which a line whose key is already
\* cached is passed over.
RECURSIVE load_lines_first_wins(_, _, _)
load_lines_first_wins(st, lines, i) ==
    IF i = 0 THEN st
    ELSE LET before == load_lines_first_wins(st, lines, i - 1)
             parsed == from_json_line(lines[i])
         IN IF parsed # None /\ parsed[1].key \in DOMAIN before.cache
            THEN before
            ELSE load_line(before, parsed)

\* load's loop over the first i lines of the file.
RECURSIVE load_lines(_, _, _)
load_lines(st, lines, i) ==
    IF i = 0 THEN st
    ELSE load_line(load_lines(st, lines, i - 1), from_json_line(lines[i]))

\* AstroStore::load(path, capacity), for the lines of the file at path.
load(lines, cap) == load_lines(EmptyStore(cap), lines, Len(lines))

\* ------------------------------------------------------------- Stabilizer

\* One hundredth, in the units of Scale.
Cent == Scale \div 100

\* The product of two f32 numbers of which the first is a whole number of
\* hundredths.
Mul(a, b) ==
    LET h == a \div Cent
    IN h * (b \div 100) + DivRound(h * (b % 100), 100)

\* Integer division that drops the fraction (an `as i64` cast).
TruncDiv(a, b) == IF a >= 0 THEN a \div b ELSE -((-a) \div b)

\* A ring buffer of n zeros.
Zeros(n) == [i \in 1..n |-> 0]

\* Stabilizer::new that stores the configuration as it is given.
Stabilizer_new_as_given(cfg) ==
    [cfg |-> cfg, state |-> "Normal", steps_in_state |-> 0,
     ema_drift |-> 0, ema_res |-> 0,
     ring_drift |-> Zeros(cfg.win), ring_res |-> Zeros(cfg.win),
     idx |-> 0, initialized |-> FALSE]

\* Stabilizer::new: the configuration is brought into its domain and the
\* stabilizer starts in Normal with empty averages.
Stabilizer_new(cfg) ==
    LET c == [win |-> Max(cfg.win, 1),
              ema_alpha |-> Clamp(cfg.ema_alpha, 0, Scale),
              warm_drift |-> Clamp(cfg.warm_drift, 0, Scale),
              hot_drift |-> Clamp(cfg.hot_drift, 0, Scale),
              low_res |-> Clamp(cfg.low_res, 0, Scale),
              cool_steps |-> Max(cfg.cool_steps, 1),
              calm_boost |-> Clamp(cfg.calm_boost, 0, 2000000)]
    IN [cfg |-> c, state |-> "Normal", steps_in_state |-> 0,
        ema_drift |-> 0, ema_res |-> 0,
        ring_drift |-> Zeros(c.win), ring_res |-> Zeros(c.win),
        idx |-> 0, initialized |-> FALSE]

\* A sample taken as it comes.
sample_raw(v) == v

\* The clamp of a pushed sample: drift.clamp(0.0, 1.0).
sample(v) == Clamp(v, 0, Scale)

\* A next state chosen from the averages in place of the sample.
next_state_by_ema(s, drift, res) ==
    IF s.ema_drift >= s.cfg.hot_drift /\ s.ema_res <= s.cfg.low_res THEN "Overheat"
    ELSE IF s.ema_drift >= s.cfg.warm_drift THEN "Warming"
    ELSE IF s.state = "Overheat"
         THEN IF s.steps_in_state + 1 < s.cfg.cool_steps THEN "Cooldown" ELSE "Normal"
    ELSE IF s.state = "Cooldown"
         THEN IF s.steps_in_state + 1 >= s.cfg.cool_steps THEN "Normal" ELSE "Cooldown"
    ELSE "Normal"

\* A next state that leaves Cooldown one push later.
next_state_cools_late(s, drift, res) ==
    IF drift >= s.cfg.hot_drift /\ res <= s.cfg.low_res THEN "Overheat"
    ELSE IF drift >= s.cfg.warm_drift THEN "Warming"
    ELSE IF s.state = "Overheat"
         THEN IF s.steps_in_state + 1 < s.cfg.cool_steps THEN "Cooldown" ELSE "Normal"
    ELSE IF s.state = "Cooldown"
         THEN IF s.steps_in_state + 1 > s.cfg.cool_steps THEN "Normal" ELSE "Cooldown"
    ELSE "Normal"

\* A next state chosen from the sample and the oldest slot of the ring.
next_state_by_ring(s, drift, res) ==
    LET worst == Max(drift, s.ring_drift[1])
    IN IF worst >= s.cfg.hot_drift /\ res <= s.cfg.low_res THEN "Overheat"
       ELSE IF worst >= s.cfg.warm_drift THEN "Warming"
       ELSE IF s.state = "Overheat"
            THEN IF s.steps_in_state + 1 < s.cfg.cool_steps THEN "Cooldown" ELSE "Normal"
       ELSE IF s.state = "Cooldown"
            THEN IF s.steps_in_state + 1 >= s.cfg.cool_steps THEN "Normal" ELSE "Cooldown"
       ELSE "Normal"

\* The state push moves to, from the clamped sample and the current state.
next_state(s, drift, res) ==
    IF drift >= s.cfg.hot_drift /\ res <= s.cfg.low_res THEN "Overheat"
    ELSE IF drift >= s.cfg.warm_drift THEN "Warming"
    ELSE IF s.state = "Overheat"
         THEN IF s.steps_in_state + 1 < s.cfg.cool_steps THEN "Cooldown" ELSE "Normal"
    ELSE IF s.state = "Cooldown"
         THEN IF s.steps_in_state + 1 >= s.cfg.cool_steps THEN "Normal" ELSE "Cooldown"
    ELSE "Normal"

\* A step counter that starts from 1 in a new state.
next_steps_from_one(s, next) ==
    IF next # s.state THEN 1 ELSE Min(s.steps_in_state + 1, 2 * s.cfg.cool_steps)

\* A step counter without its cap.
next_steps_uncapped(s, next) ==
    IF next # s.state THEN 0 ELSE s.steps_in_state + 1

\* The steps_in_state push leaves: 0 in a new state, and otherwise one more,
\* up to cool_steps.saturating_mul(2).
next_steps(s, next) ==
    IF next # s.state THEN 0 ELSE Min(s.steps_in_state + 1, 2 * s.cfg.cool_steps)

\* Stabilizer::push: the stabilizer after the call.
push(s, drift_in, res_in) ==
    IF Len(s.ring_drift) = 0 THEN s
    ELSE
    LET drift == sample(drift_in)
        res == sample(res_in)
        alpha == s.cfg.ema_alpha
        e_drift == IF ~s.initialized THEN drift
                   ELSE Mul(alpha, drift) + Mul(Scale - alpha, s.ema_drift)
        e_res == IF ~s.initialized THEN res
                 ELSE Mul(alpha, res) + Mul(Scale - alpha, s.ema_res)
        next == next_state(s, drift, res)
    IN [s EXCEPT !.ring_drift[s.idx + 1] = drift,
                 !.ring_res[s.idx + 1] = res,
                 !.idx = (s.idx + 1) % Len(s.ring_drift),
                 !.initialized = TRUE,
                 !.ema_drift = Clamp(e_drift, 0, Scale),
                 !.ema_res = Clamp(e_res, 0, Scale),
                 !.state = next,
                 !.steps_in_state = next_steps(s, next)]

\* advice that leaves calm_boost out of the Overheat correction.
advice_no_boost(s) ==
    CASE s.state = "Normal" ->
           [pace_delta |-> 0, pause_delta_ms |-> 0, articulation_hint |-> 0]
      [] s.state = "Warming" ->
           [pace_delta |-> -300000, pause_delta_ms |-> 10, articulation_hint |-> 200000]
      [] s.state = "Overheat" ->
           [pace_delta |-> -700000, pause_delta_ms |-> 30, articulation_hint |-> 500000]
      [] s.state = "Cooldown" ->
           [pace_delta |-> -400000, pause_delta_ms |-> 20, articulation_hint |-> 300000]

\* Stabilizer::advice.
advice(s) ==
    CASE s.state = "Normal" ->
           [pace_delta |-> 0, pause_delta_ms |-> 0, articulation_hint |-> 0]
      [] s.state = "Warming" ->
           [pace_delta |-> -300000, pause_delta_ms |-> 10, articulation_hint |-> 200000]
      [] s.state = "Overheat" ->
           [pace_delta |-> -700000 - s.cfg.calm_boost,
            pause_delta_ms |-> 30 + DivRound(s.cfg.calm_boost * 100, Scale),
            articulation_hint |-> 500000]
      [] s.state = "Cooldown" ->
           [pace_delta |-> -400000, pause_delta_ms |-> 20, articulation_hint |-> 300000]

\* -------------------------------------------------------------- SyncState

\* SyncState::default().
SyncDefault ==
    [baselines |-> [drift |-> 0, res |-> 0],
     seeds |-> [pace_bias |-> 0, pause_bias_ms |-> 0, res_warm |-> 0, drift_soft |-> 0],
     accum_drift |-> 0, accum_res |-> 0, steps |-> 0]

\* warm_start that installs the seeds and baselines and keeps the sums.
warm_start_keeps_sums(s, seeds, base) ==
    [s EXCEPT !.seeds = seeds, !.baselines = base]

\* SyncState::warm_start.
warm_start(s, seeds, base) ==
    [s EXCEPT !.seeds = seeds, !.baselines = base,
              !.accum_drift = 0, !.accum_res = 0, !.steps = 0]

\* f32::clamp(min, max) asserts min <= max.
ClampPanics(lo, hi) == lo > hi

\* A clamp that leaves the value as it is.
clamp_off(v, lo, hi) == v

\* f32::clamp and i64::clamp, when they return.
clamp(v, lo, hi) == Clamp(v, lo, hi)

\* Residuals with the resonance residual taken the other way round.
ResidualOf_res_minus_base(s, drift, res) ==
    [d_drift |-> Min(Max(drift - s.baselines.drift, -Scale), Scale),
     d_res |-> Min(Max(res - s.baselines.res, -Scale), Scale)]

\* The residuals of a step: (drift - baseline).max(-1.0).min(1.0) and
\* (baseline - res).max(-1.0).min(1.0).
ResidualOf(s, drift, res) ==
    [d_drift |-> Min(Max(drift - s.baselines.drift, -Scale), Scale),
     d_res |-> Min(Max(s.baselines.res - res, -Scale), Scale)]

\* step with the Overheat penalty applied before the clamps.
step_penalty_first(s, drift, res, state, cfg) ==
    LET r == ResidualOf(s, drift, res)
        after == [s EXCEPT !.accum_drift = @ + r.d_drift,
                           !.accum_res = @ + r.d_res,
                           !.steps = @ + 1]
        c == cfg.clamp_step
        hot == state = "Overheat"
        pace == clamp(-Mul(cfg.lr_fast, r.d_drift) - (IF hot THEN Cent ELSE 0), -c, c)
        pause == clamp(TruncDiv(Mul(cfg.lr_fast, r.d_res) * 80, Scale)
                       + (IF hot THEN 10 ELSE 0), -20, 40)
        res_boost == clamp(MulRat(Mul(cfg.lr_fast, Max(r.d_res, 0)), 1, 20), 0, c)
        drift_relief == clamp(MulRat(Mul(cfg.lr_fast, Max(-r.d_drift, 0)), 1, 20), 0, c)
    IN IF ClampPanics(-c, c) \/ ClampPanics(0, c)
       THEN [st |-> after, panic |-> TRUE, ret |-> None]
       ELSE [st |-> after, panic |-> FALSE,
             ret |-> Some([pace |-> pace, pause_ms |-> pause,
                           res_boost |-> res_boost, drift_relief |-> drift_relief])]

\* SyncState::step: the state after the call, whether the call panicked
\* (pace.clamp(-c, c) with c < 0; the accumulators are then already updated)
\* and the tuple it returns otherwise.
step(s, drift, res, state, cfg) ==
    LET r == ResidualOf(s, drift, res)
        after == [s EXCEPT !.accum_drift = @ + r.d_drift,
                           !.accum_res = @ + r.d_res,
                           !.steps = @ + 1]
        c == cfg.clamp_step
        pace == clamp(-Mul(cfg.lr_fast, r.d_drift), -c, c)
        pause == clamp(TruncDiv(Mul(cfg.lr_fast, r.d_res) * 80, Scale), -20, 40)
        res_boost == clamp(MulRat(Mul(cfg.lr_fast, Max(r.d_res, 0)), 1, 20), 0, c)
        drift_relief == clamp(MulRat(Mul(cfg.lr_fast, Max(-r.d_drift, 0)), 1, 20), 0, c)
        hot == state = "Overheat"
    IN IF ClampPanics(-c, c) \/ ClampPanics(0, c)
       THEN [st |-> after, panic |-> TRUE, ret |-> None]
       ELSE [st |-> after, panic |-> FALSE,
             ret |-> Some([pace |-> IF hot THEN pace - Cent ELSE pace,
                           pause_ms |-> IF hot THEN pause + 10 ELSE pause,
                           res_boost |-> res_boost,
                           drift_relief |-> drift_relief])]

\* A mean that forgets to divide.
MeanOf_sum(accum, steps) == accum

\* accum / steps as f32.
MeanOf(accum, steps) == DivRound(accum, steps)

\* SyncState::to_slow_increments: (drift_bias, res_bias).
to_slow_increments(s, cfg) ==
    IF s.steps = 0 THEN <<0, 0>>
    ELSE <<clamp(-Mul(cfg.lr_slow, MeanOf(s.accum_drift, s.steps)), -300000, 300000),
           clamp(Mul(cfg.lr_slow, MeanOf(s.accum_res, s.steps)), -300000, 300000)>>

\* ------------------------------------------------------------ the inputs

\* The keys the callers pass.  recall and consolidate are given what
\* topic_key returns, "astro-" and ten hexadecimal digits: plain keys.
\* suggest_sync and fold_sync_delta are given a theme, which is what
\* normalize_theme returns: the script or the first utterance, trimmed and
\* lowercased, whatever characters it holds; KeyC is a theme with a comma in it
\* and KeyA one that is spelled like a topic key.
KeyA == <<"a">>
KeyB == <<"b">>
KeyC == <<"c", ",">>
KeyD == <<"d">>
TopicKeys == {KeyA, KeyB}
Themes == {KeyA, KeyC}
WriteKeys == {KeyA, KeyB, KeyD}

\* The capacity arguments of load.
Caps == {0, 1, 2}

\* The timestamps the callers pass: a moment, and a day later.
T0 == 100
T1 == T0 + SecondsPerDay
Times == {T0, T1}

\* Six hours after T0: a recall then finds a trace written twice still stable.
Tq == T0 + SecondsPerDay \div 4

\* The (drift, res) pair given to consolidate.
Drift == 4000000
Res == 7000000

\* The (drift_delta, res_delta) pairs given to fold_sync_delta.
Deltas == {<<0, 0>>, <<-200000, 150000>>}

\* ------------------------------------------------------------- the state

VARIABLES
    cache,      \* AstroStore.cache: key -> trace
    order,      \* AstroStore.order: keys, most recent first
    capacity,   \* AstroStore.capacity
    log,        \* the lines of the file at AstroStore.path
    pc,         \* "ready", or "loading" while load replays the log
    pos,        \* the number of log lines load has replayed
    cap_arg,    \* the capacity argument the store was loaded with
    last,       \* the last call: its name, arguments, result, evicted keys
    written,    \* history: the traces persist_trace was given, in order
    touch_all,  \* history: cached keys by latest recall call or write, latest first
    touch_ok,   \* history: keys by latest successful recall or write, latest first
    loads,      \* the number of restarts made
    torn,       \* whether the last line of the file still lacks its newline
    stab,       \* the Stabilizer, once constructed: None or Some(stabilizer)
    sync_state, \* the SyncState
    panicked,   \* whether a call has panicked
    reply,      \* history: the latest stabilizer or sync call and what it returned
    calls,      \* history: the number of pushes and steps made
    trail,      \* history: each push made, with the state it left
    turn        \* main: its options, its place in the turn loop, the turn's values

vars == <<cache, order, capacity, log, pc, pos, cap_arg, last, written,
          touch_all, touch_ok, loads, torn, stab, sync_state, panicked, reply, calls,
          trail, turn>>

\* The state of the topic memory store and its history.
storevars == <<cache, order, capacity, log, pc, pos, cap_arg, last, written,
               touch_all, touch_ok, loads, torn>>

\* A call of the stabilizer or of the sync controller: its arguments and
\* what it returned.
CoreCall(op, args, out) == [op |-> op, args |-> args, out |-> out]

Store == StoreOf(cache, order, capacity)

File == FileOf(log, torn)

Call(op, key, now, ret, zero, evicted) ==
    [op |-> op, key |-> key, now |-> now, ret |-> ret, zero |-> zero, evicted |-> evicted,
     io |-> "ok", args |-> <<>>]

\* The keys an insert evicted: those of the order list `before` (the list
\* with the inserted key promoted) that are no longer in `after`, from the back.
RECURSIVE Popped(_, _)
Popped(before, after) ==
    IF before = <<>> THEN <<>>
    ELSE LET k == before[Len(before)]
             rest == Popped(SubSeq(before, 1, Len(before) - 1), after)
         IN IF Position(after, k) = 0 THEN <<k>> \o rest ELSE rest

\* main before it has read its options: no turn made, nothing measured.
TurnOff ==
    [at |-> "start", astro |-> FALSE, sync |-> FALSE, stabilizer |-> FALSE,
     n |-> 0, key |-> <<>>, measured_drift |-> 0, measured_res |-> 0, emo_flag |-> FALSE,
     drift |-> 0, res |-> 0, current_state |-> "Normal", seed_bias_applied |-> FALSE,
     invoked |-> <<>>]

\* The state after construction: AstroStore::load(path, capacity) of a path
\* that holds no file yet.
Init ==
    /\ cap_arg \in Caps
    /\ cache = <<>>
    /\ order = <<>>
    /\ capacity = EmptyStore(cap_arg).capacity
    /\ log = <<>>
    /\ pc = "ready"
    /\ pos = 0
    /\ last = Call("new", <<>>, 0, None, FALSE, <<>>)
    /\ written = <<>>
    /\ touch_all = <<>>
    /\ touch_ok = <<>>
    /\ loads = 0
    /\ torn = FALSE
    /\ stab = None
    /\ sync_state = SyncDefault
    /\ panicked = FALSE
    /\ reply = CoreCall("none", <<>>, <<>>)
    /\ calls = 0
    /\ trail = <<>>
    /\ turn = TurnOff

SetStore(st) ==
    /\ cache' = st.cache
    /\ order' = st.order
    /\ capacity' = st.capacity

\* store.recall(key, now).
Recall(key, now) ==
    /\ pc = "ready"
    /\ LET r == recall(Store, key, now)
       IN /\ SetStore(r.st)
          /\ last' = Call("recall", key, now, r.ret, FALSE, <<>>)
          /\ touch_ok' = IF r.ret = None THEN touch_ok ELSE promote(touch_ok, key)
    /\ touch_all' = IF key \in DOMAIN cache THEN promote(touch_all, key) ELSE touch_all
    /\ UNCHANGED <<turn, stab, sync_state, panicked, reply, calls, trail,
                   log, pc, pos, cap_arg, written, loads, torn>>

\* store.consolidate(key, drift, res, emo_tag, now), the append ending as
\* io says.
ConsolidateIo(key, drift, res, emo_tag, now, io) ==
    /\ pc = "ready"
    /\ Len(written) < MaxLog
    /\ LET r == consolidate(Store, File, key, drift, res, emo_tag, now, io)
       IN /\ SetStore(r.st)
          /\ log' = r.file.lines
          /\ torn' = r.file.torn
          /\ last' = [Call("consolidate", key, now, None, FALSE,
                           Popped(promote(order, key), r.st.order))
                      EXCEPT !.io = io, !.args = <<drift, res, emo_tag>>]
    /\ written' = Append(written, ConsolidatedTrace(Store, key, drift, res, emo_tag, now))
    /\ touch_all' = promote(touch_all, key)
    /\ touch_ok' = promote(touch_ok, key)
    /\ UNCHANGED <<turn, stab, sync_state, panicked, reply, calls, trail,
                   pc, pos, cap_arg, loads>>

\* store.consolidate(key, drift, res, emo_tag, now); the file system works.
Consolidate(key, drift, res, emo_tag, now) ==
    ConsolidateIo(key, drift, res, emo_tag, now, "ok")

\* store.fold_sync_delta(key, drift_delta, res_delta, now), the append ending
\* as io says.
FoldSyncDeltaIo(key, drift_delta, res_delta, now, io) ==
    /\ pc = "ready"
    /\ Len(written) < MaxLog
    /\ LET r == fold_sync_delta(Store, File, key, drift_delta, res_delta, now, io)
           zero == drift_delta = 0 /\ res_delta = 0
       IN /\ SetStore(r.st)
          /\ log' = r.file.lines
          /\ torn' = r.file.torn
          /\ last' = [Call("fold_sync_delta", key, now, None, zero,
                           IF zero THEN <<>> ELSE Popped(promote(order, key), r.st.order))
                      EXCEPT !.io = io, !.args = <<drift_delta, res_delta>>]
          /\ written' = IF zero THEN written
                        ELSE Append(written, FoldedTrace(Store, key, drift_delta, res_delta, now))
          /\ touch_all' = IF zero THEN touch_all ELSE promote(touch_all, key)
          /\ touch_ok' = IF zero THEN touch_ok ELSE promote(touch_ok, key)
    /\ UNCHANGED <<turn, stab, sync_state, panicked, reply, calls, trail,
                   pc, pos, cap_arg, loads>>

\* store.fold_sync_delta(key, drift_delta, res_delta, now); the file system works.
FoldSyncDelta(key, drift_delta, res_delta, now) ==
    FoldSyncDeltaIo(key, drift_delta, res_delta, now, "ok")

\* store.suggest_sync(theme).
SuggestSync(theme) ==
    /\ pc = "ready"
    /\ last' = Call("suggest_sync", theme, 0, suggest_sync(Store, theme), FALSE, <<>>)
    /\ UNCHANGED <<turn, stab, sync_state, panicked, reply, calls, trail,
                   cache, order, capacity, log, pc, pos, cap_arg, written, touch_all,
                   touch_ok, loads, torn>>

\* AstroStore::load(path, cap) up to its loop: the process starts again and
\* a new store replaces the old one.
LoadBegin(cap) ==
    /\ pc = "ready"
    /\ loads < MaxLoads
    /\ log # <<>>
    /\ SetStore(EmptyStore(cap))
    /\ cap_arg' = cap
    /\ pc' = "loading"
    /\ pos' = 0
    /\ last' = Call("load", <<>>, 0, None, FALSE, <<>>)
    /\ touch_all' = <<>>
    /\ touch_ok' = <<>>
    /\ loads' = loads + 1
    /\ UNCHANGED <<turn, stab, sync_state, panicked, reply, calls, trail,
                   log, written, torn>>

\* One turn of load's loop; after the last line the store is returned.
LoadLine ==
    /\ pc = "loading"
    /\ LET parsed == from_json_line(log[pos + 1])
           st == load_line(Store, parsed)
       IN /\ SetStore(st)
          /\ last' = Call("load_line", IF parsed = None THEN <<>> ELSE parsed[1].key, 0,
                          None, parsed = None,
                          IF parsed = None THEN <<>>
                          ELSE Popped(promote(order, parsed[1].key), st.order))
          /\ touch_all' = IF parsed = None THEN touch_all ELSE promote(touch_all, parsed[1].key)
          /\ touch_ok' = IF parsed = None THEN touch_ok ELSE promote(touch_ok, parsed[1].key)
    /\ pos' = pos + 1
    /\ pc' = IF pos + 1 = Len(log) THEN "ready" ELSE "loading"
    /\ UNCHANGED <<turn, stab, sync_state, panicked, reply, calls, trail,
                   log, cap_arg, written, loads, torn>>

\* The store in use: every call, at one moment, the writes with the
\* emotional tag.
Next ==
    \/ \E key \in TopicKeys : Recall(key, T0)
    \/ \E key \in TopicKeys : Consolidate(key, Drift, Res, TRUE, T0)
    \/ \E theme \in Themes, d \in Deltas : FoldSyncDelta(theme, d[1], d[2], T0)
    \/ \E theme \in Themes : SuggestSync(theme)
    \/ \E cap \in Caps : LoadBegin(cap)
    \/ LoadLine

Spec == Init /\ [][Next]_vars

\* Recall over time: two keys written at one moment, with and without the
\* emotional tag, and recalled at that moment and a day later.
NextRecall ==
    \/ \E key \in TopicKeys, emo_tag \in BOOLEAN : Consolidate(key, Drift, Res, emo_tag, T0)
    \/ \E key \in TopicKeys, now \in Times : Recall(key, now)

SpecRecall == Init /\ [][NextRecall]_vars

\* Recall soon after the writes: two keys written with the emotional tag and
\* recalled six hours later.
NextTouch ==
    \/ \E key \in TopicKeys : Consolidate(key, Drift, Res, TRUE, T0)
    \/ \E key \in TopicKeys : Recall(key, Tq)

SpecTouch == Init /\ [][NextTouch]_vars

\* Numbers out of their ranges: one key written and folded with signals and
\* deltas far below and far above what the callers compute, then loaded again.
ExtremeSignals == {<<-3 * Scale, 3 * Scale>>, <<3 * Scale, -3 * Scale>>, <<Drift, Res>>}
ExtremeDeltas == {<<-3 * Scale, 3 * Scale>>, <<1500000, -1500000>>}

NextRange ==
    \/ \E sig \in ExtremeSignals : Consolidate(KeyA, sig[1], sig[2], FALSE, T0)
    \/ \E d \in ExtremeDeltas : FoldSyncDelta(KeyA, d[1], d[2], T0)
    \/ LoadBegin(cap_arg)
    \/ LoadLine

SpecRange == Init /\ [][NextRange]_vars

\* Lines that someone else wrote.  A line is described by its kind and its
\* key; its text is made from the trace of tests::trace_roundtrip_json.
BaseTrace(key) ==
    [key |-> key, ema_drift |-> 3100000, ema_res |-> 7700000, stability |-> 4200000,
     visits |-> 3, last_ts |-> 42, emo_tag |-> TRUE, sync_bias_drift |-> -400000,
     sync_bias_res |-> 600000, sync_stability |-> 5000000, sync_visits |-> 2]

\* The kinds of line: as the store writes it; as a version without the sync
\* fields wrote it; with a field the parser does not know; and the
\* malformed ones: no closing brace, a part without a colon, a required
\* number that is no number, no key field, an empty key.
GoodKinds == {"full", "legacy", "extra"}
BadKinds == {"unclosed", "nocolon", "bad_ema_drift", "bad_ema_res", "bad_stability",
             "bad_visits", "bad_last_ts", "nokey", "emptykey"}

\* The fields of a line, joined by commas.
RECURSIVE Joined(_)
Joined(fields) ==
    IF Len(fields) = 0 THEN <<>>
    ELSE IF Len(fields) = 1 THEN fields[1]
    ELSE fields[1] \o <<Ch(",")>> \o Joined(Tail(fields))

\* The text of the line of a kind for a key.
LineOf(kind, key) ==
    LET t == BaseTrace(key)
        Num(name, tok) == Field(name, <<IF kind = "bad_" \o name THEN Word("x") ELSE tok>>)
        keyf == IF kind = "nokey" THEN <<>>
                ELSE <<Field("key", <<Ch("\"")>>
                                    \o (IF kind = "emptykey" THEN <<>> ELSE KeyText(key))
                                    \o <<Ch("\"")>>)>>
        core == <<Num("ema_drift", Fmt6(t.ema_drift)), Num("ema_res", Fmt6(t.ema_res)),
                  Num("stability", Fmt6(t.stability)), Num("visits", IntTok(t.visits)),
                  Num("last_ts", IntTok(t.last_ts)), Field("emo_tag", <<Word("true")>>)>>
        junk == IF kind = "nocolon" THEN <<<<Word("oops")>>>> ELSE <<>>
        sync == IF kind = "legacy" THEN <<>>
                ELSE <<Field("sync_bias_drift", <<Fmt6(t.sync_bias_drift)>>),
                       Field("sync_bias_res", <<Fmt6(t.sync_bias_res)>>),
                       Field("sync_stability", <<Fmt6(t.sync_stability)>>),
                       Field("sync_visits", <<IntTok(t.sync_visits)>>)>>
        extra == IF kind = "extra" THEN <<Field("note", <<IntTok(7)>>)>> ELSE <<>>
    IN <<Ch("{")>> \o Joined(keyf \o core \o junk \o sync \o extra)
       \o (IF kind = "unclosed" THEN <<>> ELSE <<Ch("}")>>)

\* The lines that may stand in the log: every kind for key a, and the line
\* the store writes for key b.
ForeignLines == {<<kind, KeyA>> : kind \in GoodKinds \cup BadKinds} \cup {<<"full", KeyB>>}

\* The malformed lines.
BadLines == {LineOf(kind, KeyA) : kind \in BadKinds}

\* Someone appends a line to the file before the store is loaded; the file
\* comes to hold one malformed line at most.
AppendLine(kind, key) ==
    /\ pc = "ready"
    /\ loads = 0
    /\ Len(log) < MaxLog
    /\ kind \in BadKinds => \A i \in 1..Len(log) : log[i] \notin BadLines
    /\ log' = Append(log, LineOf(kind, key))
    /\ last' = Call("append_line", key, 0, None, FALSE, <<>>)
    /\ UNCHANGED <<turn, stab, sync_state, panicked, reply, calls, trail,
                   cache, order, capacity, pc, pos, cap_arg, written, touch_all, touch_ok,
                   loads, torn>>

\* A log of such lines, then the load with room for both keys.
NextLog ==
    \/ \E d \in ForeignLines : AppendLine(d[1], d[2])
    \/ LoadBegin(Cardinality(TopicKeys))
    \/ LoadLine

SpecLog == Init /\ [][NextLog]_vars

\* Traces with values in and out of their ranges: a stability at the recall
\* threshold, inside [0,1] and above 1; no visit, a few and many; a resonance
\* average below 0, inside [0,1] and above 1; with and without the tag.
WildTraces ==
    {[BaseTrace(KeyA) EXCEPT !.stability = s, !.visits = v, !.ema_res = r, !.emo_tag = e] :
        s \in {STABILITY_THRESHOLD, 4200000, 3 * Scale}, v \in {0, 3, 40},
        r \in {-3 * Scale, 7700000, 3 * Scale}, e \in BOOLEAN}

\* Someone writes the line of a trace into a file that is still empty.
AppendTrace(trace) ==
    /\ pc = "ready"
    /\ loads = 0
    /\ log = <<>>
    /\ log' = <<to_json_line(trace)>>
    /\ last' = Call("append_line", trace.key, 0, None, FALSE, <<>>)
    /\ UNCHANGED <<turn, stab, sync_state, panicked, reply, calls, trail,
                   cache, order, capacity, pc, pos, cap_arg, written, touch_all, touch_ok,
                   loads, torn>>

\* A store loaded from such a line and its trace recalled, at once and a day
\* later.
NextAdvice ==
    \/ \E trace \in WildTraces : AppendTrace(trace)
    \/ LoadBegin(1)
    \/ LoadLine
    \/ \E now \in Times : Recall(KeyA, now)

SpecAdvice == Init /\ [][NextAdvice]_vars

\* Traces whose sync fields are in and out of their ranges: biases below
\* -0.2, inside and above 0.2, a sync stability below 0, inside [0,1] and
\* above 1, with and without sync visits.
WildSyncTraces ==
    {[BaseTrace(KeyA) EXCEPT !.sync_bias_drift = b, !.sync_bias_res = -b,
                             !.sync_stability = s, !.sync_visits = v] :
        b \in {-3 * Scale, -400000, 3 * Scale}, s \in {-Scale, 5000000, 3 * Scale},
        v \in {0, 2}}

\* A store loaded from such a line, asked for its sync suggestion for the
\* key of the line and for another, and folded into.
NextSuggest ==
    \/ \E trace \in WildSyncTraces : AppendTrace(trace)
    \/ LoadBegin(1)
    \/ LoadLine
    \/ \E theme \in TopicKeys : SuggestSync(theme)
    \/ \E d \in Deltas : FoldSyncDelta(KeyA, d[1], d[2], T0)

SpecSuggest == Init /\ [][NextSuggest]_vars

\* Writes and a restart with the same capacity: consolidate calls only, then
\* the log is loaded again.
NextWrites ==
    \/ \E key \in WriteKeys, emo_tag \in BOOLEAN : Consolidate(key, Drift, Res, emo_tag, T0)
    \/ LoadBegin(cap_arg)
    \/ LoadLine

SpecWrites == Init /\ [][NextWrites]_vars

\* Stabilizer::new(cfg).
StabilizerNew(cfg) ==
    /\ stab = None
    /\ ~panicked
    /\ stab' = Some(Stabilizer_new(cfg))
    /\ reply' = CoreCall("new", cfg, <<>>)
    /\ UNCHANGED <<turn, storevars, sync_state, panicked, calls, trail>>

\* stab.push(drift, res), in a run of at most `most` pushes.
PushUpTo(drift, res, most) ==
    /\ stab # None
    /\ ~panicked
    /\ calls < most
    /\ stab' = Some(push(stab[1], drift, res))
    /\ reply' = CoreCall("push", <<drift, res>>, <<>>)
    /\ calls' = calls + 1
    /\ trail' = Append(trail, [drift |-> drift, res |-> res,
                               state |-> push(stab[1], drift, res).state])
    /\ UNCHANGED <<turn, storevars, sync_state, panicked>>

\* stab.push(drift, res).
Push(drift, res) == PushUpTo(drift, res, MaxCalls)

\* stab.push(drift, res) with a drift above that of the push before it.
PushRising(drift, res) ==
    /\ reply.op = "new" \/ (reply.op = "push" /\ drift > reply.args[1])
    /\ Push(drift, res)

\* stab.advice().
Advice ==
    /\ stab # None
    /\ ~panicked
    /\ reply' = CoreCall("advice", <<>>, advice(stab[1]))
    /\ UNCHANGED <<turn, storevars, stab, sync_state, panicked, calls, trail>>

\* sync_state.warm_start(seeds, base).
WarmStart(seeds, base) ==
    /\ ~panicked
    /\ sync_state' = warm_start(sync_state, seeds, base)
    /\ reply' = CoreCall("warm_start", <<seeds, base>>, <<>>)
    /\ UNCHANGED <<turn, storevars, stab, panicked, calls, trail>>

\* sync_state.step(drift, res, state, &cfg): the call returns its tuple or
\* panics.
Step(drift, res, state, cfg) ==
    /\ ~panicked
    /\ calls < MaxCalls
    /\ LET r == step(sync_state, drift, res, state, cfg)
       IN /\ sync_state' = r.st
          /\ panicked' = r.panic
          /\ reply' = CoreCall("step", [drift |-> drift, res |-> res, state |-> state, cfg |-> cfg],
                             r.ret)
    /\ calls' = calls + 1
    /\ UNCHANGED <<turn, storevars, stab, trail>>

\* sync_state.to_slow_increments(&cfg).
ToSlowIncrements(cfg) ==
    /\ ~panicked
    /\ reply' = CoreCall("to_slow_increments", cfg, to_slow_increments(sync_state, cfg))
    /\ UNCHANGED <<turn, storevars, stab, sync_state, panicked, calls, trail>>

\* The accumulators and the step count written from outside, as the fields
\* are public.
SetAccum(accum_drift, accum_res, steps) ==
    /\ ~panicked
    /\ sync_state' = [sync_state EXCEPT !.accum_drift = accum_drift, !.accum_res = accum_res,
                                        !.steps = steps]
    /\ reply' = CoreCall("set_accum", <<accum_drift, accum_res, steps>>, <<>>)
    /\ UNCHANGED <<turn, storevars, stab, panicked, calls, trail>>

\* The configuration of tests/stabilizer.rs.
TestStabCfg ==
    [win |-> 5, ema_alpha |-> 4000000, warm_drift |-> 3200000, hot_drift |-> 4200000,
     low_res |-> 5800000, cool_steps |-> 3, calm_boost |-> 800000]

\* A configuration with every value outside its domain, above or below.
WildStabCfg ==
    [win |-> 0, ema_alpha |-> 3 * Scale, warm_drift |-> -Scale, hot_drift |-> 2 * Scale,
     low_res |-> -5000000, cool_steps |-> 0, calm_boost |-> 5 * Scale]

\* A small window, and an ema_alpha below its domain.
SmallStabCfg ==
    [TestStabCfg EXCEPT !.win = 2, !.ema_alpha = -Scale, !.cool_steps = 1]

StabCfgs == {TestStabCfg, WildStabCfg, SmallStabCfg}

\* Pushed samples (drift, res): those of tests/stabilizer.rs, and samples far
\* outside [0,1] on either side.
Samples ==
    {<<2000000, 8000000>>, <<3400000, 7000000>>, <<4500000, 5500000>>,
     <<-3 * Scale, 3 * Scale>>, <<3 * Scale, -3 * Scale>>}

\* The stabilizer alone: it is constructed, then samples are pushed and the
\* advice is read.
NextStab ==
    \/ \E cfg \in StabCfgs : StabilizerNew(cfg)
    \/ \E s \in Samples : Push(s[1], s[2])
    \/ Advice

SpecStab == Init /\ [][NextStab]_vars

\* Drifts below, between and above the thresholds of TestStabCfg, each with a
\* resonance above and below its low_res.
RisingSamples ==
    {<<d, r>> : d \in {1000000, 2000000, 3400000, 4500000, 6000000},
                r \in {5500000, 8000000}}

\* The stabilizer fed drifts that rise from push to push.
NextRise ==
    \/ \E cfg \in StabCfgs : StabilizerNew(cfg)
    \/ \E s \in RisingSamples : PushRising(s[1], s[2])

SpecRise == Init /\ [][NextRise]_vars

\* The configuration of the tests with cool_steps from 0 (stored as 1) to 3.
CoolCfgs == {[TestStabCfg EXCEPT !.cool_steps = n] : n \in 0..3}

\* The samples of tests/stabilizer.rs that heat (0.45, 0.55), warm
\* (0.34, 0.70) and calm (0.30, 0.75), and a calm one far outside [0,1].
CoolSamples ==
    {<<4500000, 5500000>>, <<3400000, 7000000>>, <<3000000, 7500000>>,
     <<-3 * Scale, 3 * Scale>>}

\* The stabilizer heated and left to cool down.
NextCool ==
    \/ \E cfg \in CoolCfgs : StabilizerNew(cfg)
    \/ \E s \in CoolSamples : PushUpTo(s[1], s[2], MaxCool)

SpecCool == Init /\ [][NextCool]_vars

\* The configuration of tests/sync.rs.
TestSyncCfg == [lr_fast |-> 1500000, lr_slow |-> 500000, clamp_step |-> 200000]

\* Configurations of the sync controller: that of the tests; large rates;
\* negative rates and a step clamp of zero; a negative step clamp.
SyncCfgs ==
    {TestSyncCfg,
     [lr_fast |-> 2 * Scale, lr_slow |-> 2 * Scale, clamp_step |-> 3 * Scale],
     [lr_fast |-> -Scale, lr_slow |-> -Scale, clamp_step |-> 0],
     [TestSyncCfg EXCEPT !.clamp_step = -200000]}

\* The baselines of tests/sync.rs, and baselines far outside [0,1].
Baselines ==
    {[drift |-> 3500000, res |-> 6500000], [drift |-> -3 * Scale, res |-> 3 * Scale]}

\* The baselines main takes from its configuration (those of tests/sync.rs).
MainBaselines == [drift |-> 3500000, res |-> 6500000]

\* Seeds::default().
NoSeeds == SyncDefault.seeds

\* The (drift, res) of a step: those of tests/sync.rs, a drift below the
\* baseline, and values far outside [0,1].
StepSamples ==
    {<<5000000, 5500000>>, <<2000000, 8000000>>, <<3 * Scale, -3 * Scale>>}

EmoStates == {"Normal", "Warming", "Overheat", "Cooldown"}

\* The accumulators tests/sync.rs writes (10.0, 10.0 after one step), and
\* their negatives.
Accums == {<<10 * Scale, 10 * Scale, 1>>, <<-10 * Scale, -10 * Scale, 1>>}

\* The sync controller alone.
NextSync ==
    \/ \E base \in Baselines : WarmStart(NoSeeds, base)
    \/ \E s \in StepSamples, state \in EmoStates, cfg \in SyncCfgs :
         Step(s[1], s[2], state, cfg)
    \/ \E cfg \in SyncCfgs : ToSlowIncrements(cfg)
    \/ \E a \in Accums : SetAccum(a[1], a[2], a[3])

SpecSync == Init /\ [][NextSync]_vars

\* The (drift, res) of steps above the drift baseline and below the resonance
\* baseline of tests/sync.rs: those of the test, a resonance 0.05 below the
\* baseline, and a sample on the other side of both baselines.
ReactSamples == {<<5000000, 5500000>>, <<5000000, 6000000>>, <<2000000, 8000000>>}

\* The configurations with which step returns.
ReactCfgs == {cfg \in SyncCfgs : cfg.clamp_step >= 0}

\* The sync controller warm-started and stepped, in Normal and in Overheat.
NextReact ==
    \/ \E base \in Baselines : WarmStart(NoSeeds, base)
    \/ \E s \in ReactSamples, state \in {"Normal", "Overheat"}, cfg \in ReactCfgs :
         Step(s[1], s[2], state, cfg)

SpecReact == Init /\ [][NextReact]_vars

\* The seeds and baselines of the test warm_start_resets_accumulators.
TestSeeds == [pace_bias |-> Scale, pause_bias_ms |-> 0, res_warm |-> 1000000, drift_soft |-> 2000000]

TestBaselines == [drift |-> 5000000, res |-> 5000000]

\* The sums that test writes before it warm-starts.
TestAccum == <<Scale, 2 * Scale, 3>>

\* Warm starts with and without seeds, steps in two states under two
\* configurations, and the sums written from outside.
NextWarm ==
    \/ \E seeds \in {NoSeeds, TestSeeds}, base \in Baselines \cup {TestBaselines} :
         WarmStart(seeds, base)
    \/ \E s \in StepSamples, state \in {"Normal", "Overheat"},
          cfg \in {cfg \in SyncCfgs : cfg.clamp_step > 0} :
         Step(s[1], s[2], state, cfg)
    \/ SetAccum(TestAccum[1], TestAccum[2], TestAccum[3])

SpecWarm == Init /\ [][NextWarm]_vars

\* Construction from configurations in and out of their domains: the
\* stabilizer is made, the store is written to and loaded again with a
\* capacity of 0, 1 or 2.
NextConfig ==
    \/ \E cfg \in StabCfgs : StabilizerNew(cfg)
    \/ Consolidate(KeyA, Drift, Res, FALSE, T0)
    \/ \E cap \in Caps : LoadBegin(cap)
    \/ LoadLine

SpecConfig == Init /\ [][NextConfig]_vars

\* Signals and deltas of the writes: in range, and far outside [0,1].
FrameSignals == {<<Drift, Res>>, <<3 * Scale, -3 * Scale>>}
FrameDeltas == {<<0, 0>>, <<-200000, 150000>>, <<-3 * Scale, 3 * Scale>>}

\* Writes of both kinds to one key, with and without the emotional tag, now
\* and a day later, recalls of it, and writes to a second key that evict it
\* from a small cache.
NextFrame ==
    \/ \E sig \in FrameSignals, emo_tag \in BOOLEAN :
         Consolidate(KeyA, sig[1], sig[2], emo_tag, T0)
    \/ Consolidate(KeyA, Drift, Res, FALSE, T1)
    \/ Consolidate(KeyB, Drift, Res, FALSE, T0)
    \/ \E d \in FrameDeltas : FoldSyncDelta(KeyA, d[1], d[2], T1)
    \/ Recall(KeyA, T1)

SpecFrame == Init /\ [][NextFrame]_vars

\* ------------------------------------------------------------------- main
\* The turn loop of main, for a run without an emotive seed: the store, the
\* stabilizer and the sync controller are each there or not as the options
\* say; of the loop body, the calls of the three and what passes between
\* them (drift, res, the temperament state) are modelled.

\* main up to the loop: the stabilizer is made when cfg.stabilizer is set
\* and the sync controller is warm-started when cfg.sync is set.
MainStart(astro, sync, stabilizer, seeds) ==
    /\ turn.at = "start"
    /\ stab = None
    /\ ~panicked
    /\ turn' = [turn EXCEPT !.at = "idle", !.astro = astro, !.sync = sync,
                            !.stabilizer = stabilizer]
    /\ stab' = IF stabilizer THEN Some(Stabilizer_new(TestStabCfg)) ELSE None
    /\ sync_state' = IF sync THEN warm_start(sync_state, seeds, MainBaselines) ELSE sync_state
    /\ reply' = CoreCall("main", <<astro, sync, stabilizer>>, <<>>)
    /\ UNCHANGED <<storevars, panicked, calls, trail>>

\* The head of a turn: the utterance is analysed, drift and res are clamped
\* and kept as the measured values, the topic key is made.
TurnBegin(key, drift, res, emo_flag) ==
    /\ turn.at = "idle"
    /\ turn.n < MaxTurns
    /\ turn' = [turn EXCEPT !.at = "recall", !.key = key,
                            !.measured_drift = clamp01(drift), !.measured_res = clamp01(res),
                            !.drift = clamp01(drift), !.res = clamp01(res),
                            !.emo_flag = emo_flag, !.current_state = "Normal",
                            !.invoked = <<>>]
    /\ UNCHANGED <<storevars, stab, sync_state, panicked, reply, calls, trail>>

\* store.recall(key, now) when there is a store, its biases added to drift
\* and res, and then the seed biases of the sync controller on the first
\* turn.
TurnRecall ==
    /\ turn.at = "recall"
    /\ pc = "ready"
    /\ LET r == IF turn.astro THEN recall(Store, turn.key, T0) ELSE [st |-> Store, ret |-> None]
           hit == r.ret # None
           drift == IF hit THEN clamp01(turn.drift + r.ret[1].drift_bias) ELSE turn.drift
           res == IF hit THEN clamp01(turn.res + r.ret[1].res_bias) ELSE turn.res
           seeded == turn.sync /\ ~turn.seed_bias_applied
       IN /\ SetStore(r.st)
          /\ last' = IF turn.astro THEN Call("recall", turn.key, T0, r.ret, FALSE, <<>>) ELSE last
          /\ touch_ok' = IF hit THEN promote(touch_ok, turn.key) ELSE touch_ok
          /\ touch_all' = IF turn.astro /\ turn.key \in DOMAIN cache
                          THEN promote(touch_all, turn.key) ELSE touch_all
          /\ turn' = [turn EXCEPT
                        !.at = "push",
                        !.drift = IF seeded THEN clamp01(drift - sync_state.seeds.drift_soft)
                                  ELSE drift,
                        !.res = IF seeded THEN clamp01(res + sync_state.seeds.res_warm) ELSE res,
                        !.seed_bias_applied = TRUE,
                        !.invoked = IF turn.astro THEN Append(@, "recall") ELSE @]
    /\ UNCHANGED <<stab, sync_state, panicked, reply, calls, trail,
                   log, pc, pos, cap_arg, written, loads, torn>>

\* stab.push(drift, res) when there is a stabilizer.
TurnPush ==
    /\ turn.at = "push"
    /\ IF turn.stabilizer
       THEN /\ stab' = Some(push(stab[1], turn.drift, turn.res))
            /\ reply' = CoreCall("push", <<turn.drift, turn.res>>, <<>>)
            /\ calls' = calls + 1
            /\ trail' = Append(trail, [drift |-> turn.drift, res |-> turn.res,
                                       state |-> push(stab[1], turn.drift, turn.res).state])
            /\ turn' = [turn EXCEPT !.at = "advice", !.invoked = Append(@, "push")]
       ELSE /\ turn' = [turn EXCEPT !.at = "step"]
            /\ UNCHANGED <<stab, reply, calls, trail>>
    /\ UNCHANGED <<storevars, sync_state, panicked>>

\* stab.advice(), and the state of the stabilizer taken as the turn's state.
TurnAdvice ==
    /\ turn.at = "advice"
    /\ reply' = CoreCall("advice", <<>>, advice(stab[1]))
    /\ turn' = [turn EXCEPT !.at = "step", !.current_state = stab[1].state,
                            !.invoked = Append(@, "advice")]
    /\ UNCHANGED <<storevars, stab, sync_state, panicked, calls, trail>>

\* sync_state.step(drift, res, current_state, &sync_cfg) when cfg.sync is
\* set, its boost and relief applied to res and drift.
TurnStep ==
    /\ turn.at = "step"
    /\ IF turn.sync
       THEN LET r == step(sync_state, turn.drift, turn.res, turn.current_state, TestSyncCfg)
            IN /\ sync_state' = r.st
               /\ panicked' = r.panic
               /\ reply' = CoreCall("step", [drift |-> turn.drift, res |-> turn.res,
                                             state |-> turn.current_state, cfg |-> TestSyncCfg],
                                    r.ret)
               /\ calls' = calls + 1
               /\ turn' = [turn EXCEPT
                             !.at = "consolidate",
                             !.res = IF r.panic THEN @ ELSE clamp01(@ + r.ret[1].res_boost),
                             !.drift = IF r.panic THEN @ ELSE clamp01(@ - r.ret[1].drift_relief),
                             !.invoked = Append(@, "step")]
       ELSE /\ turn' = [turn EXCEPT !.at = "consolidate"]
            /\ UNCHANGED <<sync_state, panicked, reply, calls>>
    /\ UNCHANGED <<storevars, stab, trail>>

\* store.consolidate(key, measured_drift, measured_res, emo_flag, ts) when
\* there is a store; the turn ends.
TurnConsolidate ==
    /\ turn.at = "consolidate"
    /\ pc = "ready"
    /\ ~panicked
    /\ IF turn.astro
       THEN LET r == consolidate(Store, File, turn.key, turn.measured_drift, turn.measured_res,
                                 turn.emo_flag, T0, "ok")
            IN /\ SetStore(r.st)
               /\ log' = r.file.lines
               /\ torn' = r.file.torn
               /\ last' = [Call("consolidate", turn.key, T0, None, FALSE,
                                Popped(promote(order, turn.key), r.st.order))
                           EXCEPT !.args = <<turn.measured_drift, turn.measured_res,
                                             turn.emo_flag>>]
               /\ written' = Append(written,
                                    ConsolidatedTrace(Store, turn.key, turn.measured_drift,
                                                      turn.measured_res, turn.emo_flag, T0))
               /\ touch_all' = promote(touch_all, turn.key)
               /\ touch_ok' = promote(touch_ok, turn.key)
               /\ turn' = [turn EXCEPT !.at = "idle", !.n = @ + 1,
                                       !.invoked = Append(@, "consolidate")]
       ELSE /\ turn' = [turn EXCEPT !.at = "idle", !.n = @ + 1]
            /\ UNCHANGED <<cache, order, capacity, log, torn, last, written, touch_all, touch_ok>>
    /\ UNCHANGED <<stab, sync_state, panicked, reply, calls, trail, pc, pos, cap_arg, loads>>

\* The (drift, res) an utterance is measured at: calm, and hot.
TurnSamples == {<<2000000, 8000000>>, <<4500000, 5500000>>}

\* Runs of main with each combination of the three options.
NextMain ==
    \/ \E astro \in BOOLEAN, sync \in BOOLEAN, stabilizer \in BOOLEAN, seeds \in {NoSeeds, TestSeeds} :
         MainStart(astro, sync, stabilizer, seeds)
    \/ \E s \in TurnSamples : TurnBegin(KeyA, s[1], s[2], TRUE)
    \/ TurnRecall
    \/ TurnPush
    \/ TurnAdvice
    \/ TurnStep
    \/ TurnConsolidate

SpecMain == Init /\ [][NextMain]_vars

\* Writes on a file system that may fail: every consolidate and every fold
\* of a non-zero delta ends in one of the outcomes of an append.
NextIO ==
    \/ \E key \in TopicKeys, io \in IoOutcomes : ConsolidateIo(key, Drift, Res, FALSE, T0, io)
    \/ \E io \in IoOutcomes : FoldSyncDeltaIo(KeyA, -200000, 150000, T0, io)

SpecIO == Init /\ [][NextIO]_vars

\* ------------------------------------------------------------- the claims

\* The keys of a sequence of keys.
KeysOf(seq) == {seq[i] : i \in 1..Len(seq)}

\* The key of `among` whose latest touch is the oldest: the one that stands
\* last in the touch list (latest touch first).
Oldest(touch, among) ==
    CHOOSE k \in among : \A j \in among : Position(touch, j) <= Position(touch, k)

\* The index of the last record of key in a sequence of traces, 0 when none.
LatestIndex(traces, key) ==
    LET hits == {i \in 1..Len(traces) : traces[i].key = key}
    IN IF hits = {} THEN 0 ELSE CHOOSE i \in hits : \A j \in hits : j <= i

\* The distinct keys of the written traces, latest write first.
RECURSIVE WriteOrder(_)
WriteOrder(traces) ==
    IF traces = <<>> THEN <<>>
    ELSE promote(WriteOrder(SubSeq(traces, 1, Len(traces) - 1)), traces[Len(traces)].key)

\* The n most recently written distinct keys.
RecentlyWritten(n) ==
    LET o == WriteOrder(written) IN {o[i] : i \in 1..Min(n, Len(o))}

\* The records the first n lines of the log hold: None for a line that is
\* not a trace.
Records(n) == [i \in 1..n |-> from_json_line(log[i])]

\* C1: after load and any sequence of recall, consolidate, fold_sync_delta
\* and suggest_sync calls, and at every step of load's replay, the cache holds
\* at most max(capacity, 1) traces, capacity being the argument of load.
C1_CacheWithinCapacity == Cardinality(DOMAIN cache) <= Max(cap_arg, 1)

\* C1 happens: load was given capacity 0 and a turn of its replay evicted.
C1_Witness ==
    /\ cap_arg = 0
    /\ last.op = "load_line"
    /\ last.evicted # <<>>
    /\ Cardinality(DOMAIN cache) = 1

\* C2: the order list and the cache correspond one to one: every cached key
\* stands exactly once in the order list, and the order list holds no key
\* that is not cached.
C2_OrderMatchesCache ==
    /\ KeysOf(order) = DOMAIN cache
    /\ Len(order) = Cardinality(DOMAIN cache)

\* C2 happens: a successful recall promoted a key of a cache of two.
C2_Witness ==
    /\ last.op = "recall"
    /\ last.ret # None
    /\ Len(order) = 2
    /\ order[1] = last.key

\* C3 as stated: when an insert evicts, the evicted key is the cached key
\* whose latest touch is the oldest, a touch being any recall call on the key
\* or any write to it.
C3_EvictsOldestOfAnyTouch ==
    [][last'.evicted # <<>> =>
          /\ Len(last'.evicted) = 1
          /\ last'.evicted[1] = Oldest(touch_all, DOMAIN cache \ {last'.key})]_vars

\* C3 amended: when an insert evicts, the evicted key is the cached key whose
\* latest touch is the oldest, a touch being a recall of the key that returns
\* advice, a consolidate or fold_sync_delta write to it, or its insertion by
\* load; a recall that misses is no touch.
C3_EvictsOldestOfPromotions ==
    [][last'.evicted # <<>> =>
          /\ Len(last'.evicted) = 1
          /\ last'.evicted[1] = Oldest(touch_ok, DOMAIN cache \ {last'.key})]_vars

\* C3 happens: a consolidate evicted from a cache of two after a recall that
\* missed had been the latest call on a cached key.
C3_Witness ==
    /\ last.op = "consolidate"
    /\ Len(last.evicted) = 1
    /\ capacity = 2
    /\ Oldest(touch_all, KeysOf(touch_all)) # Oldest(touch_ok, KeysOf(touch_ok))

C5_LastLineWins ==
    last.op \in {"load", "load_line"} =>
        LET recs == Records(pos)
            valid == {i \in 1..pos : recs[i] # None}
        IN \A key \in DOMAIN cache :
               \E i \in valid :
                   /\ recs[i][1].key = key
                   /\ \A j \in valid : recs[j][1].key = key => j <= i
                   /\ cache[key] = recs[i][1]

\* C5 happens: load has read a log with two different records of one key.
C5_Witness ==
    /\ last.op = "load_line"
    /\ pc = "ready"
    /\ \E i, j \in 1..Len(log) :
          /\ i < j
          /\ Records(j)[i] # None
          /\ Records(j)[j] # None
          /\ Records(j)[i][1].key = Records(j)[j][1].key
          /\ Records(j)[i] # Records(j)[j]
          /\ Records(j)[j][1].key \in DOMAIN cache

\* C6: the log only grows, and only by writes: a consolidate, and a
\* fold_sync_delta with a delta that is not zero, appends exactly one line, the
\* line of the trace's new state; recall, suggest_sync, an eviction and load
\* leave the log as it is.
C6_LogAppendOnly ==
    [][/\ (last'.op = "consolidate" \/ (last'.op = "fold_sync_delta" /\ ~last'.zero)) =>
             /\ last'.key \in DOMAIN cache'
             /\ log' = Append(log, to_json_line(cache'[last'.key]))
       /\ (last'.op \in {"recall", "suggest_sync", "load", "load_line"}
           \/ (last'.op = "fold_sync_delta" /\ last'.zero)) =>
             log' = log
       /\ Len(log') >= Len(log)
       /\ SubSeq(log', 1, Len(log)) = log]_vars

\* C6 happens: a write that evicted a key appended the third line of the log.
C6_Witness ==
    /\ last.op \in {"consolidate", "fold_sync_delta"}
    /\ last.evicted # <<>>
    /\ Len(log) = 3

\* A write continues from the latest persisted record of its key.
ContinuesFromLatest ==
    LET new == written'[Len(written')]
        i == LatestIndex(written, new.key)
    IN i # 0 =>
          /\ last'.op = "consolidate" =>
                 new.visits = written[i].visits + 1 /\ new.sync_visits = written[i].sync_visits
          /\ last'.op = "fold_sync_delta" =>
                 new.sync_visits = written[i].sync_visits + 1 /\ new.visits = written[i].visits

\* C7 as stated: a consolidate or fold_sync_delta on a key written before
\* continues from the key's latest persisted record, evicted in between or
\* not, so that the records of a key never go down in visits and sync_visits.
C7_ContinuesAlways ==
    [][written' # written => ContinuesFromLatest]_vars

\* C7 amended: a write to a key that is in the cache continues from the key's
\* latest persisted record (consolidate adds one to visits, fold_sync_delta one
\* to sync_visits, each keeps the other count); a write to a key that is
\* not in the cache, evicted or never loaded, starts from a new trace, so its
\* record has visits 1 and sync_visits 0 (consolidate) or visits 0 and
\* sync_visits 1 (fold_sync_delta), whatever was persisted for the key before.
C7_ContinuesWhileCached ==
    [][written' # written =>
          LET new == written'[Len(written')]
          IN IF new.key \in DOMAIN cache
             THEN LatestIndex(written, new.key) # 0 /\ ContinuesFromLatest
             ELSE /\ last'.op = "consolidate" => new.visits = 1 /\ new.sync_visits = 0
                  /\ last'.op = "fold_sync_delta" => new.visits = 0 /\ new.sync_visits = 1]_vars

\* C7 happens: with capacity 1 a key was written, evicted by the write of
\* another, and written again.
C7_Witness ==
    /\ Len(written) = 3
    /\ written[1].key = written[3].key
    /\ written[3].visits = 1
    /\ written[2].key # written[1].key
    /\ capacity = 1

\* C8: fold_sync_delta(key, 0.0, 0.0, now) changes nothing: no trace is made
\* or changed, the order list stays, nothing is evicted, the log stays.
C8_ZeroFoldIsNoOp ==
    [][(last'.op = "fold_sync_delta" /\ last'.zero) =>
          /\ cache' = cache
          /\ order' = order
          /\ capacity' = capacity
          /\ log' = log
          /\ last'.evicted = <<>>]_vars

\* C8 happens: a zero fold was called on a key that is not cached, the cache
\* being full.
C8_Witness ==
    /\ last.op = "fold_sync_delta"
    /\ last.zero
    /\ last.key \notin DOMAIN cache
    /\ Len(order) = capacity

\* C9: recall(key, now) returns advice exactly when key is cached and its
\* stability after the decay to now is 0.18 or more; for a key that is not
\* cached it returns None and leaves the cache, the order list and the log.
C9_RecallHitsIffStable ==
    [][last'.op = "recall" =>
          LET key == last'.key
              now == last'.now
          IN /\ last'.ret # None <=>
                   (/\ key \in DOMAIN cache
                    /\ Decay(cache[key], now).stability >= STABILITY_THRESHOLD)
             /\ key \notin DOMAIN cache =>
                   /\ last'.ret = None
                   /\ cache' = cache
                   /\ order' = order
                   /\ log' = log]_vars

\* C9 happens: a recall a day later missed on a cached key that the decay
\* took below the threshold.
C9_Witness ==
    /\ last.op = "recall"
    /\ last.now = T1
    /\ last.ret = None
    /\ last.key \in DOMAIN cache
    /\ cache[last.key].last_ts = T0
    /\ cache[last.key].stability + DecayOf(T1 - T0) >= STABILITY_THRESHOLD

\* C10: a second recall(key, now) directly after a first with the same now
\* returns what the first returned and leaves the trace and the order list as
\* the first left them.
C10_RecallIdempotent ==
    [][(/\ last.op = "recall"
        /\ last'.op = "recall"
        /\ last'.key = last.key
        /\ last'.now = last.now) =>
          /\ last'.ret = last.ret
          /\ cache' = cache
          /\ order' = order]_vars

\* What C11 says of the stability a recall leaves: never more than before;
\* max(0, stability - 0.08 * min(days since last_ts, 30)) when now is after
\* last_ts (0.08 a day is 250/27 units a second), unchanged when it is not.
DecayedAsStated(old, new, now) ==
    /\ new.stability <= old.stability
    /\ now > old.last_ts =>
           new.stability =
               Max(0, old.stability
                      - (Min(now - old.last_ts, 30 * SecondsPerDay) * 250) \div 27)
    /\ now <= old.last_ts => new.stability = old.stability
    /\ new.emo_tag => old.emo_tag

\* C11 as stated: recall never increases the stability, leaves it decayed as
\* above, never sets the emotional tag, and clears the tag whenever the
\* stability it leaves is below 0.18.
C11_DecayClearsTagAlways ==
    [][(last'.op = "recall" /\ last'.key \in DOMAIN cache) =>
          LET old == cache[last'.key]
              new == cache'[last'.key]
          IN /\ DecayedAsStated(old, new, last'.now)
             /\ new.stability < STABILITY_THRESHOLD => ~new.emo_tag]_vars

\* C11 amended: recall never increases the stability, leaves it decayed as
\* above and never sets the emotional tag; it clears the tag when now is
\* after last_ts and the decayed stability is below 0.18, and leaves the tag
\* as it is when now is not after last_ts, whatever the stability.
C11_DecayMonotone ==
    [][(last'.op = "recall" /\ last'.key \in DOMAIN cache) =>
          LET old == cache[last'.key]
              new == cache'[last'.key]
          IN /\ DecayedAsStated(old, new, last'.now)
             /\ (last'.now > old.last_ts /\ new.stability < STABILITY_THRESHOLD) =>
                    ~new.emo_tag
             /\ last'.now <= old.last_ts => new.emo_tag = old.emo_tag]_vars

\* C11 happens: a recall a day later took a tagged trace below the threshold
\* and cleared its tag.
C11_Witness ==
    /\ last.op = "recall"
    /\ last.now = T1
    /\ last.key \in DOMAIN cache
    /\ cache[last.key].stability > 0
    /\ cache[last.key].stability < STABILITY_THRESHOLD
    /\ ~cache[last.key].emo_tag
    /\ written[LatestIndex(written, last.key)].emo_tag

\* The order list without one key.
Without(seq, key) == SelectSeq(seq, LAMBDA k : k # key)

\* C12: a recall that returns advice sets the trace's last_ts to now and puts
\* the key first in the order list; the traces of the other keys, the set of
\* cached keys and the order of the other keys among themselves stay.
C12_RecallTouchesOneKey ==
    [][(last'.op = "recall" /\ last'.ret # None) =>
          LET key == last'.key
          IN /\ DOMAIN cache' = DOMAIN cache
             /\ cache'[key].last_ts = last'.now
             /\ order'[1] = key
             /\ \A k \in DOMAIN cache \ {key} : cache'[k] = cache[k]
             /\ Without(order', key) = Without(order, key)
             /\ Len(order') = Len(order)]_vars

\* C12 happens: a recall six hours after the writes succeeded in a cache of two,
\* the other trace still bearing the time of its write.
C12_Witness ==
    /\ last.op = "recall"
    /\ last.ret # None
    /\ last.now = Tq
    /\ Len(order) = 2
    /\ order[1] = last.key
    /\ cache[order[1]].last_ts = Tq
    /\ cache[order[2]].last_ts = T0

C14_RoundTrip ==
    written # <<>> =>
        LET t == written[Len(written)]
            r == from_json_line(to_json_line(t))
            Near(x, y) == Abs(x - y) <= Scale \div 1000000
        IN /\ r # None
           /\ r[1].key = t.key
           /\ r[1].visits = t.visits
           /\ r[1].last_ts = t.last_ts
           /\ r[1].emo_tag = t.emo_tag
           /\ r[1].sync_visits = t.sync_visits
           /\ Near(r[1].ema_drift, t.ema_drift)
           /\ Near(r[1].ema_res, t.ema_res)
           /\ Near(r[1].stability, t.stability)
           /\ Near(r[1].sync_bias_drift, t.sync_bias_drift)
           /\ Near(r[1].sync_bias_res, t.sync_bias_res)
           /\ Near(r[1].sync_stability, t.sync_stability)

\* What a line of the log is to hold, by its kind: nothing when it is
\* malformed, the trace when it is whole or has an unknown field, the trace
\* with the sync fields at zero when it has none.
Expected(line) ==
    LET d == CHOOSE d \in ForeignLines : LineOf(d[1], d[2]) = line
        t == BaseTrace(d[2])
    IN IF d[1] \in BadKinds THEN None
       ELSE IF d[1] = "legacy"
            THEN Some([t EXCEPT !.sync_bias_drift = 0, !.sync_bias_res = 0,
                                !.sync_stability = 0, !.sync_visits = 0])
            ELSE Some(t)

\* C15: load skips a malformed line (no closing brace, a part without a
\* colon, a required number that does not parse, no key or an empty key) and
\* loads the other lines as if it were not there; a line without the sync
\* fields is loaded with them at zero, and an unknown field is passed over.
\* After each turn of the replay the cache holds, for each key of a good line
\* read so far, what the last good line for it holds, most recent key first.
C15_MalformedSkipped ==
    last.op \in {"load", "load_line"} =>
        LET exp == [i \in 1..pos |-> Expected(log[i])]
            good == {i \in 1..pos : exp[i] # None}
            LastGood(key) ==
                CHOOSE i \in good :
                    exp[i][1].key = key /\ \A j \in good : exp[j][1].key = key => j <= i
        IN /\ DOMAIN cache = {exp[i][1].key : i \in good}
           /\ \A key \in DOMAIN cache : cache[key] = exp[LastGood(key)][1]
           /\ Len(order) = Cardinality(DOMAIN cache)
           /\ \A i, j \in 1..Len(order) :
                  i < j => LastGood(order[i]) > LastGood(order[j])

\* C15 happens: load has read three lines, a malformed one among them and
\* after it a line without the sync fields, which is what the cache holds.
C15_Witness ==
    /\ last.op = "load_line"
    /\ pc = "ready"
    /\ Len(log) = 3
    /\ log[1] \in BadLines \/ log[2] \in BadLines
    /\ log[3] = LineOf("legacy", KeyA)
    /\ cache[KeyA].sync_visits = 0
    /\ cache[KeyA].visits = 3

\* An append that failed, in the step just taken.
FailedAppend == last'.op \in {"consolidate", "fold_sync_delta"} /\ last'.io # "ok"

\* The store is, after the step, what the same write leaves when its append
\* succeeds.
MemoryAsInSuccess ==
    LET ok == persist_trace(Store, File, written'[Len(written')], "ok").st
    IN cache' = ok.cache /\ order' = ok.order /\ capacity' = ok.capacity

\* C16 as stated: when the append of a consolidate or a fold_sync_delta fails
\* (directory creation, open or write error), the cache and the recency order
\* are updated as in the successful case and the log is left unchanged.
C16_FailedAppendLeavesLog ==
    [][FailedAppend => MemoryAsInSuccess /\ log' = log /\ torn' = torn]_vars

\* C16: when the append of a consolidate or a fold_sync_delta fails, the
\* cache and the recency order are updated as in the successful case,
\* eviction included; the log is left unchanged when the directory creation
\* or the open failed or the write wrote nothing, and a write that failed
\* later leaves a beginning of the line, without its newline, at the end of
\* the log.
C16_FailedAppendKeepsMemory ==
    [][FailedAppend =>
        /\ MemoryAsInSuccess
        /\ last'.io \in {"no_dir", "no_open", "write_none"} => log' = log /\ torn' = torn
        /\ last'.io \in {"write_part", "write_no_newline"} =>
             LET line == to_json_line(written'[Len(written')])
             IN \E n \in 1..Len(line) :
                  FileOf(log', torn') = Written(File, SubSeq(line, 1, n), FALSE)]_vars

\* A write whose append failed after a part of the line was written, and
\* which evicted a key.
C16_Witness ==
    /\ last.op = "consolidate"
    /\ last.io = "write_part"
    /\ last.evicted # <<>>
    /\ last.key \in DOMAIN cache
    /\ torn

\* C17: no core operation raises or aborts, whatever its numeric inputs and
\* configuration values, in or out of their domains: every call of the
\* stabilizer, of the sync controller and of the store completes normally.
C17_NoOperationPanics == ~panicked

\* The step just taken is a push.
Pushed == reply'.op = "push" /\ calls' = calls + 1

\* The blend alpha * x + (1 - alpha) * ema.
Blend(alpha, x, ema) == Mul(alpha, x) + Mul(Scale - alpha, ema)

\* C18: after any sequence of pushes, with samples in or out of [0,1],
\* ema_drift and ema_res lie in [0,1]; the first push sets them to the
\* clamped sample, and every later push sets them to
\* alpha * x + (1 - alpha) * ema, x being the clamped sample.
C18_EmaClampedBlend ==
    /\ [](stab # None =>
            /\ 0 <= stab[1].ema_drift /\ stab[1].ema_drift <= Scale
            /\ 0 <= stab[1].ema_res /\ stab[1].ema_res <= Scale)
    /\ [][Pushed =>
            LET old == stab[1]
                new == stab'[1]
                alpha == old.cfg.ema_alpha
                drift == Clamp(reply'.args[1], 0, Scale)
                res == Clamp(reply'.args[2], 0, Scale)
            IN IF old.initialized
               THEN /\ new.ema_drift = Blend(alpha, drift, old.ema_drift)
                    /\ new.ema_res = Blend(alpha, res, old.ema_res)
               ELSE /\ new.ema_drift = drift
                    /\ new.ema_res = res]_vars

\* A later push of a sample outside [0,1] on both sides, blended into
\* averages that stay strictly inside.
C18_Witness ==
    /\ stab # None
    /\ reply.op = "push"
    /\ calls >= 2
    /\ reply.args[1] > Scale
    /\ reply.args[2] < 0
    /\ stab[1].cfg.ema_alpha = TestStabCfg.ema_alpha
    /\ 0 < stab[1].ema_drift /\ stab[1].ema_drift < Scale
    /\ 0 < stab[1].ema_res /\ stab[1].ema_res < Scale

\* v lies in [lo, hi].
Within(v, lo, hi) == lo <= v /\ v <= hi

\* C19: for all drift, resonance, baseline and lr_fast values and every
\* clamp_step >= 0, step returns, in a state other than Overheat, pace
\* within [-clamp_step, clamp_step], pause_ms within [-20, 40] and res_boost
\* and drift_relief within [0, clamp_step]; in Overheat it returns pace
\* within [-clamp_step - 0.01, clamp_step - 0.01] and pause_ms within
\* [-10, 50].
C19_StepWithinClamps ==
    (reply.op = "step" /\ reply.args.cfg.clamp_step >= 0) =>
        /\ reply.out # None
        /\ LET o == reply.out[1]
               c == reply.args.cfg.clamp_step
           IN IF reply.args.state # "Overheat"
              THEN /\ Within(o.pace, -c, c)
                   /\ Within(o.pause_ms, -20, 40)
                   /\ Within(o.res_boost, 0, c)
                   /\ Within(o.drift_relief, 0, c)
              ELSE /\ Within(o.pace, -c - Cent, c - Cent)
                   /\ Within(o.pause_ms, -10, 50)

\* A step in Overheat whose pace was cut at -clamp_step before the 0.01 was
\* taken off, from a drift far above [0,1].
C19_Witness ==
    /\ reply.op = "step"
    /\ reply.args.state = "Overheat"
    /\ reply.args.drift > Scale
    /\ reply.args.cfg.clamp_step > 0
    /\ reply.out # None
    /\ reply.out[1].pace = -reply.args.cfg.clamp_step - Cent

\* C20: to_slow_increments returns (0, 0) when no step was taken since
\* warm_start or creation, and otherwise drift_bias = clamp(-mean_drift *
\* lr_slow) and res_bias = clamp(mean_res * lr_slow), both within
\* [-0.03, 0.03] however large the accumulators are; the call leaves the
\* SyncState as it was.
C20_SlowIncrements ==
    [][reply'.op = "to_slow_increments" =>
        /\ sync_state' = sync_state
        /\ LET s == sync_state
               lr_slow == reply'.args.lr_slow
               out == reply'.out
           IN IF s.steps = 0
              THEN out = <<0, 0>>
              ELSE /\ out[1] = Clamp(-Mul(lr_slow, DivRound(s.accum_drift, s.steps)),
                                     -300000, 300000)
                   /\ out[2] = Clamp(Mul(lr_slow, DivRound(s.accum_res, s.steps)),
                                     -300000, 300000)
                   /\ Within(out[1], -300000, 300000)
                   /\ Within(out[2], -300000, 300000)]_vars

\* The slow increments read from accumulators of 10.0 after one step, as in
\* tests/sync.rs: both at their limits.
C20_Witness ==
    /\ reply.op = "to_slow_increments"
    /\ reply.args = TestSyncCfg
    /\ sync_state.steps = 1
    /\ sync_state.accum_drift = 10 * Scale
    /\ sync_state.accum_res = 10 * Scale
    /\ reply.out = <<-300000, 300000>>

\* C21: under pushes of strictly increasing drift from the initial Normal
\* state the stabilizer goes through Normal, Warming and Overheat in that
\* order: Overheat is never entered from Normal without Warming in between.
C21_NeverSkipsWarming ==
    [][(stab # None /\ stab' # None /\ stab[1].state = "Normal")
          => stab'[1].state # "Overheat"]_vars

\* The i-th push met neither the Overheat nor the Warming condition.
SubThreshold(i) ==
    LET cfg == stab[1].cfg
        drift == Clamp(trail[i].drift, 0, Scale)
        res == Clamp(trail[i].res, 0, Scale)
    IN ~(drift >= cfg.hot_drift /\ res <= cfg.low_res) /\ ~(drift >= cfg.warm_drift)

\* The i-th push entered Overheat.
EnteredOverheat(i) ==
    /\ trail[i].state = "Overheat"
    /\ i = 1 \/ trail[i - 1].state # "Overheat"

\* The pushes after the i-th, up to the k-th after it, were all made and all
\* sub-threshold.
CooledFor(i, k) ==
    /\ i + k <= Len(trail)
    /\ \A j \in (i + 1)..(i + k) : SubThreshold(j)

\* C22: after the stabilizer enters Overheat, exactly cool_steps consecutive
\* sub-threshold pushes bring it back to Normal: with cool_steps = n the first
\* n - 1 of them leave it in Cooldown and the n-th moves it to Normal.
C22_CoolsInCoolSteps ==
    stab # None =>
        \A i \in 1..Len(trail), k \in 1..stab[1].cfg.cool_steps :
            (EnteredOverheat(i) /\ CooledFor(i, k)) =>
                trail[i + k].state =
                    IF k < stab[1].cfg.cool_steps THEN "Cooldown" ELSE "Normal"

\* C23 as stated: from a stabilizer that has just entered Overheat, each of
\* the first cool_steps consecutive sub-threshold pushes leaves Cooldown and
\* the one after them moves it to Normal, whatever cool_steps is.
C23_CooldownForCoolSteps ==
    stab # None =>
        \A i \in 1..Len(trail), k \in 1..(stab[1].cfg.cool_steps + 1) :
            (EnteredOverheat(i) /\ CooledFor(i, k)) =>
                trail[i + k].state =
                    IF k <= stab[1].cfg.cool_steps THEN "Cooldown" ELSE "Normal"

\* C23: from a stabilizer that has just entered Overheat, with
\* cool_steps >= 2, each of the first cool_steps consecutive sub-threshold
\* pushes leaves Cooldown and the one after them moves it to Normal; with
\* cool_steps = 1 the first such push moves it to Normal.
C23_CooldownForCoolStepsFromTwo ==
    stab # None =>
        \A i \in 1..Len(trail), k \in 1..(stab[1].cfg.cool_steps + 1) :
            (EnteredOverheat(i) /\ CooledFor(i, k)) =>
                IF stab[1].cfg.cool_steps >= 2
                THEN trail[i + k].state =
                         IF k <= stab[1].cfg.cool_steps THEN "Cooldown" ELSE "Normal"
                ELSE trail[i + k].state = "Normal"

\* With cool_steps = 3: one push into Overheat, three sub-threshold pushes
\* that leave Cooldown and a fourth that leaves Normal.
C23_Witness ==
    /\ stab # None
    /\ stab[1].cfg.cool_steps = 3
    /\ Len(trail) = 5
    /\ EnteredOverheat(1)
    /\ CooledFor(1, 4)
    /\ \A k \in 1..3 : trail[1 + k].state = "Cooldown"
    /\ trail[5].state = "Normal"

\* The first three pushes of tests/stabilizer.rs and the states they are to
\* leave.
TestPushes == <<<<2000000, 8000000>>, <<3400000, 7000000>>, <<4500000, 5500000>>>>
TestStates == <<"Normal", "Warming", "Overheat">>

\* The first i pushes made are the first i of TestPushes.
FollowsTest(i) ==
    /\ i <= Len(trail) /\ i <= Len(TestPushes)
    /\ \A j \in 1..i : <<trail[j].drift, trail[j].res>> = TestPushes[j]

\* C24: with win 5, alpha 0.4, warm 0.32, hot 0.42, low_res 0.58, cool_steps
\* 3 and calm_boost 0.08, the pushes (0.20, 0.80), (0.34, 0.70), (0.45, 0.55)
\* leave Normal, Warming and Overheat in turn; advice() depends on the state
\* and calm_boost only and leaves the stabilizer unchanged; it is zero in
\* Normal, has pace_delta < 0 and pause_delta_ms > 0 in Warming, and
\* pace_delta < -0.07 and pause_delta_ms >= 30 in Overheat.
C24_TestProgressionAndAdvice ==
    /\ []((stab # None /\ stab[1].cfg = TestStabCfg) =>
            \A i \in 1..Len(TestPushes) : FollowsTest(i) => trail[i].state = TestStates[i])
    /\ [][reply'.op = "advice" =>
            /\ stab' = stab
            /\ LET s == stab[1]
                   out == reply'.out
               IN /\ out = advice([state |-> s.state,
                                   cfg |-> [calm_boost |-> s.cfg.calm_boost]])
                  /\ s.state = "Normal" =>
                        out.pace_delta = 0 /\ out.pause_delta_ms = 0
                                           /\ out.articulation_hint = 0
                  /\ s.state = "Warming" => out.pace_delta < 0 /\ out.pause_delta_ms > 0
                  /\ (s.state = "Overheat" /\ s.cfg.calm_boost = TestStabCfg.calm_boost) =>
                        out.pace_delta < -700000 /\ out.pause_delta_ms >= 30]_vars

\* The three pushes of the test made under its configuration, and the advice
\* read in Overheat.
C24_Witness ==
    /\ stab # None
    /\ stab[1].cfg = TestStabCfg
    /\ FollowsTest(3)
    /\ stab[1].state = "Overheat"
    /\ reply.op = "advice"
    /\ reply.out.pace_delta = -1500000
    /\ reply.out.pause_delta_ms = 38

\* The latest call is a step, at a positive lr_fast and in a state other than
\* Overheat, of a drift above the drift baseline and a resonance below the
\* resonance baseline.
HighDriftLowRes ==
    /\ reply.op = "step"
    /\ reply.args.cfg.lr_fast > 0
    /\ reply.args.state # "Overheat"
    /\ reply.args.drift > sync_state.baselines.drift
    /\ reply.args.res < sync_state.baselines.res

C26_AdviceWithinRanges ==
    (last.op = "recall" /\ last.ret # None) =>
        LET a == last.ret[1]
        IN /\ Within(a.drift_bias, -600000, -200000)
           /\ Within(a.res_bias, 200000, 600000)
           /\ Within(a.pace_delta, -400000, -100000)
           /\ Within(a.pause_delta_ms, 10, 40)

\* An advice from a trace whose stability and resonance average are above 1:
\* the intensity is cut at 1 and the advice is at its limits.
C26_Witness ==
    /\ last.op = "recall"
    /\ last.ret # None
    /\ cache[last.key].stability > Scale
    /\ cache[last.key].ema_res > Scale
    /\ last.ret[1].drift_bias = -600000
    /\ last.ret[1].pause_delta_ms = 40

\* C27: suggest_sync reads only: it leaves the cache, the recency order (no
\* promotion) and the log as they were; it returns None exactly when the
\* theme is not cached or has no sync visit, and otherwise biases within
\* [-0.2, 0.2], a stability within [0,1] and the count of sync visits.
C27_SuggestSyncReadsOnly ==
    [][last'.op = "suggest_sync" =>
        /\ cache' = cache /\ order' = order /\ capacity' = capacity
        /\ log' = log /\ torn' = torn
        /\ LET theme == last'.key
               out == last'.ret
           IN /\ out = None <=>
                    (theme \notin DOMAIN cache \/ cache[theme].sync_visits = 0)
              /\ out # None =>
                    /\ Within(out[1].drift_bias, -SYNC_CLAMP, SYNC_CLAMP)
                    /\ Within(out[1].res_bias, -SYNC_CLAMP, SYNC_CLAMP)
                    /\ Within(out[1].stability, 0, Scale)
                    /\ out[1].visits = cache[theme].sync_visits]_vars

\* A suggestion from a trace whose sync fields are out of their ranges: the
\* biases and the stability come back cut to their limits.
C27_Witness ==
    /\ last.op = "suggest_sync"
    /\ last.ret # None
    /\ cache[last.key].sync_bias_drift > SYNC_CLAMP
    /\ cache[last.key].sync_stability > Scale
    /\ last.ret[1].drift_bias = SYNC_CLAMP
    /\ last.ret[1].res_bias = -SYNC_CLAMP
    /\ last.ret[1].stability = Scale
    /\ last.ret[1].visits = 2

\* C28: a configuration out of its domain is clamped and never rejected:
\* after Stabilizer::new the stored configuration has win >= 1, ema_alpha,
\* warm_drift, hot_drift and low_res in [0,1], cool_steps >= 1 and calm_boost
\* in [0, 0.2], and both ring buffers have win slots; after AstroStore::load
\* the capacity is at least 1.
C28_ConfigClamped ==
    /\ ~panicked
    /\ stab # None =>
          LET s == stab[1]
          IN /\ s.cfg.win >= 1
             /\ Within(s.cfg.ema_alpha, 0, Scale)
             /\ Within(s.cfg.warm_drift, 0, Scale)
             /\ Within(s.cfg.hot_drift, 0, Scale)
             /\ Within(s.cfg.low_res, 0, Scale)
             /\ s.cfg.cool_steps >= 1
             /\ Within(s.cfg.calm_boost, 0, 2000000)
             /\ Len(s.ring_drift) = s.cfg.win
             /\ Len(s.ring_res) = s.cfg.win
    /\ capacity >= 1

\* A stabilizer made from a configuration with every value out of its
\* domain, next to a store loaded with a capacity of 0.
C28_Witness ==
    /\ stab # None
    /\ reply.op = "new"
    /\ reply.args = WildStabCfg
    /\ stab[1].cfg.win = 1
    /\ stab[1].cfg.ema_alpha = Scale
    /\ stab[1].cfg.warm_drift = 0
    /\ stab[1].cfg.cool_steps = 1
    /\ stab[1].cfg.calm_boost = 2000000
    /\ loads > 0
    /\ pc = "ready"
    /\ cap_arg = 0
    /\ capacity = 1

\* The step just taken is a push of the stabilizer.
PushMade == Len(trail') = Len(trail) + 1

\* C29: push computes the next state from the clamped inputs and the current
\* state only: Overheat if drift >= hot_drift and res <= low_res; else Warming
\* if drift >= warm_drift; else, from Overheat, Cooldown if steps_in_state + 1
\* < cool_steps and Normal otherwise; from Cooldown, Normal if steps_in_state
\* + 1 >= cool_steps and Cooldown otherwise; from Normal or Warming, Normal.
\* Cooldown is entered from Overheat only.
C29_NextStateRule ==
    [][PushMade =>
        LET s == stab[1]
            drift == Clamp(trail'[Len(trail')].drift, 0, Scale)
            res == Clamp(trail'[Len(trail')].res, 0, Scale)
            next == stab'[1].state
        IN /\ IF drift >= s.cfg.hot_drift /\ res <= s.cfg.low_res
              THEN next = "Overheat"
              ELSE IF drift >= s.cfg.warm_drift
              THEN next = "Warming"
              ELSE CASE s.state = "Overheat" ->
                          next = IF s.steps_in_state + 1 < s.cfg.cool_steps
                                 THEN "Cooldown" ELSE "Normal"
                     [] s.state = "Cooldown" ->
                          next = IF s.steps_in_state + 1 >= s.cfg.cool_steps
                                 THEN "Normal" ELSE "Cooldown"
                     [] OTHER -> next = "Normal"
           /\ (next = "Cooldown" /\ s.state # "Cooldown") => s.state = "Overheat"]_vars

\* A push of a sample far outside [0,1] that ends a Cooldown of cool_steps
\* = 3 in Normal.
C29_Witness ==
    /\ stab # None
    /\ stab[1].cfg.cool_steps = 3
    /\ Len(trail) >= 2
    /\ trail[Len(trail) - 1].state = "Cooldown"
    /\ trail[Len(trail)].state = "Normal"
    /\ trail[Len(trail)].drift < 0

\* C30: after every push steps_in_state is 0 if the push changed the state
\* and otherwise min(previous value + 1, 2 * cool_steps); so steps_in_state
\* is at most 2 * cool_steps in every reachable state, and at most
\* cool_steps - 1 whenever the state is Cooldown.
C30_StepsInState ==
    /\ [](stab # None =>
            /\ stab[1].steps_in_state <= 2 * stab[1].cfg.cool_steps
            /\ stab[1].state = "Cooldown" =>
                  stab[1].steps_in_state <= stab[1].cfg.cool_steps - 1)
    /\ [][PushMade =>
            stab'[1].steps_in_state =
                IF stab'[1].state # stab[1].state THEN 0
                ELSE Min(stab[1].steps_in_state + 1, 2 * stab[1].cfg.cool_steps)]_vars

\* More pushes in one state than twice cool_steps: the counter stands at its
\* cap.
C30_Witness ==
    /\ stab # None
    /\ Len(trail) > 2 * stab[1].cfg.cool_steps
    /\ \A i \in 1..Len(trail) : trail[i].state = stab[1].state
    /\ stab[1].steps_in_state = 2 * stab[1].cfg.cool_steps

\* The step just taken is a call of SyncState::step.
StepMade == reply'.op = "step" /\ calls' = calls + 1

\* C31: the Overheat penalty is applied after the clamps and to nothing
\* else: on the same SyncState, inputs and cfg, step in Overheat returns
\* (pace - 0.01, pause_ms + 10, res_boost, drift_relief) of what it returns
\* in Normal, Warming or Cooldown, those three return the same, and the
\* accumulators and the step count come out the same in all four states.
C31_OverheatPenaltyAfterClamp ==
    [][StepMade =>
        LET a == reply'.args
            In(state) == step(sync_state, a.drift, a.res, state, a.cfg)
            normal == In("Normal")
        IN /\ In("Warming") = normal /\ In("Cooldown") = normal
           /\ sync_state' = normal.st
           /\ In("Overheat").st = normal.st
           /\ reply'.out =
                IF normal.ret = None THEN None
                ELSE IF a.state = "Overheat"
                     THEN Some([normal.ret[1] EXCEPT !.pace = @ - Cent, !.pause_ms = @ + 10])
                     ELSE normal.ret]_vars

\* A step in Overheat whose pause was cut at 40 before the 10 was added.
C31_Witness ==
    /\ reply.op = "step"
    /\ reply.args.state = "Overheat"
    /\ reply.out # None
    /\ reply.out[1].pause_ms = 50

\* a / b rounded to the nearest integer, halves away from zero (f32::round),
\* for b > 0.
RoundDiv(a, b) ==
    LET whole == TruncDiv(a, b)
        rest == Abs(a) % b
    IN IF 2 * rest < b THEN whole ELSE IF a >= 0 THEN whole + 1 ELSE whole - 1

\* C32 as stated: the pause correction of step is
\* clamp(round(lr_fast * d_res * 80), -20, 40), the product rounded to the
\* nearest integer before the clamp (the Overheat penalty of 10 set aside).
C32_PauseRounded ==
    (reply.op = "step" /\ reply.out # None) =>
        LET a == reply.args
            r == ResidualOf(sync_state, a.drift, a.res)
            penalty == IF a.state = "Overheat" THEN 10 ELSE 0
        IN reply.out[1].pause_ms - penalty =
             Clamp(RoundDiv(Mul(a.cfg.lr_fast, r.d_res) * 80, Scale), -20, 40)

\* C33: warm_start zeroes accum_drift, accum_res and steps and installs the
\* seeds and baselines it is given; every step adds 1 to steps and adds to the
\* accumulators the residuals drift - baseline_drift and
\* baseline_res - resonance, each cut to [-1, 1], whatever state and cfg it is
\* given: n steps after a warm start, steps = n and each accumulator is the
\* sum of the n residuals.
C33_WarmStartAndSums ==
    [][/\ reply'.op = "warm_start" =>
            sync_state' = [seeds |-> reply'.args[1], baselines |-> reply'.args[2],
                           accum_drift |-> 0, accum_res |-> 0, steps |-> 0]
       /\ StepMade =>
            LET a == reply'.args
                base == sync_state.baselines
            IN /\ sync_state'.steps = sync_state.steps + 1
               /\ sync_state'.accum_drift =
                    sync_state.accum_drift + Clamp(a.drift - base.drift, -Scale, Scale)
               /\ sync_state'.accum_res =
                    sync_state.accum_res + Clamp(base.res - a.res, -Scale, Scale)
               /\ sync_state'.seeds = sync_state.seeds
               /\ sync_state'.baselines = base]_vars

\* Two steps after a warm start with the seeds of the test, both with
\* residuals cut at 1.
C33_Witness ==
    /\ reply.op = "step"
    /\ sync_state.seeds = TestSeeds
    /\ sync_state.steps = 2
    /\ sync_state.accum_drift = 2 * Scale
    /\ sync_state.accum_res = 2 * Scale

\* The step just taken is a consolidate, or a fold_sync_delta of a delta
\* that is not zero.
WriteMade(op) == last'.op = op /\ Len(written') = Len(written) + 1

\* C34: consolidate(key, drift, res, emo_tag, now) starts from a new trace
\* when key is not cached and from the cached trace otherwise; visits goes
\* up by 1, the first visit sets the EMA fields to the inputs cut to [0,1] and
\* a later visit blends 0.22 of the input with 0.78 of the field, stability
\* goes up by 0.06 to 0.12 and stops at 1, last_ts is now, and key is the
\* most recently used entry.
C34_Consolidate ==
    [][WriteMade("consolidate") =>
        LET key == last'.key
            drift == last'.args[1]
            res == last'.args[2]
            cached == key \in DOMAIN cache
            visits == IF cached THEN cache[key].visits ELSE 0
            stability == IF cached THEN cache[key].stability ELSE 0
            new == cache'[key]
        IN /\ key \in DOMAIN cache'
           /\ new.visits = visits + 1
           /\ visits = 0 =>
                /\ new.ema_drift = Clamp(drift, 0, Scale)
                /\ new.ema_res = Clamp(res, 0, Scale)
           /\ visits > 0 =>
                /\ new.ema_drift =
                     Clamp(MulRat(drift, 22, 100) + MulRat(cache[key].ema_drift, 78, 100), 0, Scale)
                /\ new.ema_res =
                     Clamp(MulRat(res, 22, 100) + MulRat(cache[key].ema_res, 78, 100), 0, Scale)
           /\ \/ /\ new.stability < Scale
                 /\ Within(new.stability - stability, 600000, 1200000)
              \/ /\ new.stability = Scale
                 /\ stability + 1200000 >= Scale
           /\ new.last_ts = last'.now
           /\ order'[1] = key]_vars

\* A cached trace written a day earlier was consolidated a second time while
\* another key was in the cache.
C34_Witness ==
    /\ last.op = "consolidate"
    /\ last.now = T1
    /\ Len(order) = 2
    /\ order[1] = last.key
    /\ cache[last.key].visits = 2
    /\ cache[last.key].last_ts = T1
    /\ cache[last.key].ema_drift = MulRat(Drift, 22, 100) + MulRat(Scale, 78, 100)

\* The agreement score of a delta: 1 - 0.5 * (|drift_delta| + |res_delta|),
\* cut to [0,1].
Agreement(drift_delta, res_delta) ==
    Clamp(Scale - DivRound(Abs(drift_delta) + Abs(res_delta), 2), 0, Scale)

\* C35: a fold_sync_delta of a delta that is not zero adds 1 to sync_visits,
\* adds the deltas to the sync biases and cuts each to [-0.2, 0.2], sets
\* sync_stability to the agreement score on the first sync visit and to the
\* running mean of the scores on a later one, within [0,1]; for a key that is
\* not cached it makes the trace, whose visits is 0.
C35_FoldSyncDelta ==
    [][WriteMade("fold_sync_delta") =>
        LET key == last'.key
            drift_delta == last'.args[1]
            res_delta == last'.args[2]
            cached == key \in DOMAIN cache
            sync_visits == IF cached THEN cache[key].sync_visits ELSE 0
            bias_drift == IF cached THEN cache[key].sync_bias_drift ELSE 0
            bias_res == IF cached THEN cache[key].sync_bias_res ELSE 0
            score == Agreement(drift_delta, res_delta)
            new == cache'[key]
        IN /\ ~(drift_delta = 0 /\ res_delta = 0)
           /\ key \in DOMAIN cache'
           /\ new.sync_visits = sync_visits + 1
           /\ new.sync_bias_drift = Clamp(bias_drift + drift_delta, -SYNC_CLAMP, SYNC_CLAMP)
           /\ new.sync_bias_res = Clamp(bias_res + res_delta, -SYNC_CLAMP, SYNC_CLAMP)
           /\ sync_visits = 0 => new.sync_stability = score
           /\ sync_visits > 0 =>
                new.sync_stability =
                    DivRound(cache[key].sync_stability * sync_visits + score, sync_visits + 1)
           /\ Within(new.sync_stability, 0, Scale)
           /\ ~cached => new.visits = 0]_vars

\* The second fold into a trace: a delta far out of range after a small one,
\* the drift bias cut at -0.2 and the stability the mean of the two scores.
C35_Witness ==
    /\ last.op = "fold_sync_delta"
    /\ ~last.zero
    /\ cache[last.key].sync_visits = 2
    /\ cache[last.key].sync_bias_drift = -SYNC_CLAMP
    /\ cache[last.key].sync_stability = DivRound(Agreement(-200000, 150000), 2)

\* C40: the stability of a trace that stays in the cache goes down only in
\* a recall of its key; a consolidate of a cached key raises stability by at
\* least 0.06 up to 1 whatever time has passed, and leaves the four sync
\* fields as they were; a fold_sync_delta of a cached key leaves stability,
\* ema_drift, ema_res, visits and emo_tag as they were; both set last_ts to
\* now.
C40_OnlyRecallLowersStability ==
    [][\A key \in DOMAIN cache \cap DOMAIN cache' :
        LET old == cache[key]
            new == cache'[key]
        IN /\ new.stability < old.stability => (last'.op = "recall" /\ last'.key = key)
           /\ (WriteMade("consolidate") /\ last'.key = key) =>
                /\ new.stability >= Min(old.stability + 600000, Scale)
                /\ new.sync_bias_drift = old.sync_bias_drift
                /\ new.sync_bias_res = old.sync_bias_res
                /\ new.sync_stability = old.sync_stability
                /\ new.sync_visits = old.sync_visits
                /\ new.last_ts = last'.now
           /\ (WriteMade("fold_sync_delta") /\ last'.key = key) =>
                /\ new.stability = old.stability
                /\ new.ema_drift = old.ema_drift
                /\ new.ema_res = old.ema_res
                /\ new.visits = old.visits
                /\ new.emo_tag = old.emo_tag
                /\ new.last_ts = last'.now]_vars

\* A trace consolidated with the tag was folded into a day later: its
\* stability and its tag are those of the record before, its last_ts is new.
C40_Witness ==
    /\ last.op = "fold_sync_delta"
    /\ ~last.zero
    /\ last.now = T1
    /\ Len(written) >= 2
    /\ LET before == written[Len(written) - 1]
           after == written[Len(written)]
       IN /\ before.key = last.key
          /\ before.last_ts = T0
          /\ before.emo_tag
          /\ after.last_ts = T1
          /\ after.stability = before.stability
          /\ after.stability >= 600000
          /\ cache[last.key] = after

\* C36 as stated: in a turn of a run with the store, the stabilizer and the
\* sync controller all there, the calls made are, in this order, Stabilizer
\* push, Stabilizer advice, Sync step, Topic Memory recall, Topic Memory
\* consolidate, each once.
C36_FixedOrder ==
    (turn.astro /\ turn.sync /\ turn.stabilizer /\ turn.at = "idle" /\ turn.n > 0) =>
        turn.invoked = <<"push", "advice", "step", "recall", "consolidate">>

\* The stabilizer made with cfg after the first i pushes of the trail.
RECURSIVE Replayed(_, _)
Replayed(cfg, i) ==
    IF i = 0 THEN Stabilizer_new(cfg)
    ELSE push(Replayed(cfg, i - 1), trail[i].drift, trail[i].res)

\* Windows and smoothing factors other than those of the run: a window of 0
\* (made 1), of 1 and of 3, a factor of 0.1 and of 1.
OtherWindows == {[win |-> w, ema_alpha |-> a] : w \in {0, 1, 3}, a \in {1000000, Scale}}

\* The configuration of the run with another window and smoothing factor.
Twin(o) == [stab[1].cfg EXCEPT !.win = o.win, !.ema_alpha = o.ema_alpha]

\* C37: a stabilizer whose configuration differs only in win and ema_alpha
\* is, after the same pushes, in the same state with the same count of steps
\* and gives the same advice, and the ring index stays in [0, win).  As this
\* holds after every push, the two go through the same sequence of states.
C37_StatesIgnoreWindowAndAlpha ==
    stab # None =>
        /\ Within(stab[1].idx, 0, stab[1].cfg.win - 1)
        /\ \A o \in OtherWindows :
             LET twin == Replayed(Twin(o), Len(trail))
             IN /\ twin.state = stab[1].state
                /\ twin.steps_in_state = stab[1].steps_in_state
                /\ advice(twin) = advice(stab[1])
                /\ Within(twin.idx, 0, twin.cfg.win - 1)

\* Six pushes went round the ring of five and left the stabilizer cooling
\* down, with averages other than those a window of 1 and a factor of 1 give.
C37_Witness ==
    /\ stab # None
    /\ Len(trail) = 6
    /\ stab[1].idx = 1
    /\ stab[1].state = "Cooldown"
    /\ Replayed(Twin([win |-> 1, ema_alpha |-> Scale]), Len(trail)).ema_drift # stab[1].ema_drift

\* The state the stabilizer was in before its j-th push.
StateBefore(j) == IF j = 1 THEN "Normal" ELSE trail[j - 1].state

\* C38: in a run of consecutive sub-threshold pushes, begun in any state,
\* the stabilizer is in Normal after cool_steps + 1 of them at the latest,
\* and a sub-threshold push made in Normal leaves Normal.
C38_ReachesNormalAndStays ==
    stab # None =>
        /\ \A i \in 0..Len(trail), k \in 1..Len(trail) :
             (CooledFor(i, k) /\ k >= stab[1].cfg.cool_steps + 1) =>
                 trail[i + k].state = "Normal"
        /\ \A j \in 1..Len(trail) :
             (SubThreshold(j) /\ StateBefore(j) = "Normal") => trail[j].state = "Normal"

\* With cool_steps = 3, a push into Overheat and five sub-threshold pushes:
\* the fourth is the first to leave Normal, and the fifth leaves Normal too.
C38_Witness ==
    /\ stab # None
    /\ stab[1].cfg.cool_steps = 3
    /\ Len(trail) = 6
    /\ trail[1].state = "Overheat"
    /\ CooledFor(1, 5)
    /\ trail[4].state = "Cooldown"
    /\ trail[5].state = "Normal"
    /\ trail[6].state = "Normal"

\* The distinct keys of the written traces that a store of capacity cap
\* has room for, latest write first.
LatestWritten(cap) ==
    LET o == WriteOrder(written) IN SubSeq(o, 1, Min(Max(cap, 1), Len(o)))

====
